---------------------------- MODULE Spec2Model ----------------------------
(***************************************************************************)
(* Model of the Moonwell plugin's position and risk engine.                *)
(*                                                                         *)
(* Number encoding.  The program computes with BigNumber and with JS       *)
(* numbers; the model uses integers:                                       *)
(*   - token amounts on chain are raw integers (USDC: 6 decimals);         *)
(*   - amounts a user asks for are whole tokens (BigNumber(500));          *)
(*   - USD values are whole dollars (all balances of the model are whole   *)
(*     tokens at whole-dollar prices, so raw * price / 10^decimals is      *)
(*     exact);                                                             *)
(*   - health factors, which the code rounds to two decimals, are carried  *)
(*     in hundredths (1.5 is 150, the sentinel 999 is 99900);              *)
(*   - a liquidation threshold is carried in percent (0.8 is 80);          *)
(*   - time is in milliseconds.                                            *)
(* A comparison of two BigNumbers is a comparison of the two integers,     *)
(* whatever unit each was meant to be in: that is what the code does.      *)
(***************************************************************************)
EXTENDS Integers, Sequences, FiniteSets, TLC

VARIABLES
    isInitialized,      \* state.isInitialized
    userAddress,        \* TRUE when a signer / state.userAddress is set
    healthFactorThreshold, \* moonwellConfig.healthFactorThreshold, hundredths
    positionCache,      \* state.positionCache: a UserPosition or NULL
    lastUpdate,         \* state.lastUpdate: ms, 0 when never set
    marketDataCached,   \* TRUE once state.marketDataCache is set
    now,                \* Date.now(), ms
    chain,              \* the account and market on chain (raw units)
    builtAt,            \* when the snapshot in positionCache was built, ms
    builtPreOp,         \* positionCache was read before a later transaction of the service
    op,                 \* the mutating request in flight and its locals
    reader,             \* the monitor poll's getUserPosition while it is in flight
    warned,             \* the monitor's last poll logged a health factor alert
    lastCall,           \* the last read API call and what it did
    calcIn,             \* arguments of the last health factor computation
    calcOut,            \* what each implementation computed from calcIn
    balIn,              \* getAllUserBalances' params and what each source's fetch yields
    breakdown,          \* what getAllUserBalances returned, or its error
    stopped,            \* the service's stop() has completed
    guardIn,            \* a position and two amounts for the borrow capacity check
    guardOut,           \* what the capacity check answered for guardIn
    fnIn,               \* the arguments a function or read of the plugin is applied to
    fnOut               \* what it returned or threw for fnIn

svcVars == <<isInitialized, userAddress, healthFactorThreshold, positionCache,
             lastUpdate, marketDataCached, now, chain, builtAt, builtPreOp, op,
             reader, warned, lastCall>>
calcVars == <<calcIn, calcOut, balIn, breakdown, stopped, guardIn, guardOut,
              fnIn, fnOut>>
\* Everything but fnIn and fnOut.
restVars == <<svcVars, calcIn, calcOut, balIn, breakdown, stopped, guardIn,
              guardOut>>
vars == <<svcVars, calcVars>>

NULL == "null"
\* The null a UserPosition | null can be.
NoPosition == [isNull |-> TRUE]

(***************************************************************************)
(* Bounds of the model.                                                    *)
(***************************************************************************)
MaxTokens == 3          \* whole tokens the wallet holds at the start
MaxRequest == 2         \* largest whole-token amount a request names
MaxTicks == 3           \* clock ticks in one behaviour
MaxCollateralUSD == 5000 \* largest collateral value of a health factor computation
MaxDebtUSD == 4         \* largest debt value of a health factor computation

(***************************************************************************)
(* Program constants.                                                      *)
(***************************************************************************)
USDC_DECIMALS == 6
CACHE_FRESH_MS == 30000
DEFAULT_HEALTH_FACTOR_ALERT == 150
WITHDRAW_RISK_BOUNDARY == 120
BORROW_MIN_HEALTH == 150
DEFAULT_LIQUIDATION_THRESHOLD == 80
MAX_HEALTH_FACTOR == 999
TICK_MS == CACHE_FRESH_MS \div 2

RECURSIVE Pow10(_)
Pow10(n) == IF n = 0 THEN 1 ELSE 10 * Pow10(n - 1)

\* Hundredths of a JS number that is a whole number.
Hundredths(n) == n * 100

\* n / d rounded to the nearest integer, ties away from zero (BigNumber's
\* default ROUND_HALF_UP), for d > 0.
RoundHalfUp(n, d) ==
    IF n >= 0 THEN (2 * n + d) \div (2 * d)
              ELSE -((2 * (-n) + d) \div (2 * d))

(***************************************************************************)
(* utils/validation.ts                                                     *)
(***************************************************************************)
\* The keys of SUPPORTED_ASSETS and their decimals.  The chain model holds
\* the one 6-decimal market a request can name.
SUPPORTED_ASSETS == {"USDC", "WETH", "cbETH", "DAI", "USDbC"}

Decimals(asset) == IF asset \in {"USDC", "USDbC"} THEN USDC_DECIMALS ELSE 18

\* asset.toUpperCase() of the names the model feeds in.
ToUpperCase(asset) ==
    CASE asset = "usdc"  -> "USDC"
      [] asset = "weth"  -> "WETH"
      [] asset = "dai"   -> "DAI"
      [] asset = "cbETH" -> "CBETH"
      [] asset = "USDbC" -> "USDBC"
      [] OTHER           -> asset

\* validateAsset: the normalized name, or the error code.
validateAsset(asset) ==
    IF ToUpperCase(asset) \in SUPPORTED_ASSETS
    THEN [ok |-> TRUE, asset |-> ToUpperCase(asset)]
    ELSE [ok |-> FALSE, code |-> "UNSUPPORTED_ASSET"]

\* validateAmount: NaN does not arise from integers; negative and zero throw.
validateAmount(amount) ==
    IF amount < 0 \/ amount = 0
    THEN [ok |-> FALSE, code |-> "INVALID_AMOUNT"]
    ELSE [ok |-> TRUE, amount |-> amount]

\* parseAmount(amount, decimals): amount * 10^decimals.
parseAmount(amount, decimals) == amount * Pow10(decimals)

\* calculateHealthFactor, in hundredths; liquidationThreshold in percent.
calculateHealthFactor(totalCollateralInUSD, totalDebtInUSD, liquidationThreshold) ==
    IF totalDebtInUSD = 0
    THEN Hundredths(MAX_HEALTH_FACTOR)
    ELSE RoundHalfUp(totalCollateralInUSD * liquidationThreshold, totalDebtInUSD)

\* validateHealthFactor with the comparison left out: it never throws.
validateHealthFactorNeverThrows(healthFactor, threshold) == FALSE

\* validateHealthFactor: TRUE when it throws LIQUIDATION_RISK.
validateHealthFactorThrows(healthFactor, threshold) == healthFactor < threshold

\* validateBorrowCapacity with gte in place of gt.
validateBorrowCapacityThrowsAtCapacity(requestedAmount, availableCapacity) ==
    requestedAmount >= availableCapacity

\* validateBorrowCapacity: TRUE when it throws EXCEEDS_BORROW_CAPACITY.
validateBorrowCapacityThrows(requestedAmount, availableCapacity) ==
    requestedAmount > availableCapacity

\* validateLiquidity: TRUE when it throws INSUFFICIENT_LIQUIDITY.
validateLiquidityThrows(requestedAmount, availableLiquidity) ==
    requestedAmount > availableLiquidity


(***************************************************************************)
(* The chain collaborator: the markets' mToken contracts, the comptroller  *)
(* and the price oracle, as far as the service reads and calls them.  The  *)
(* exchange rate mToken : underlying is 1, so balanceOf * exchangeRate /   *)
(* 10^18 is the underlying balance kept here.                              *)
(***************************************************************************)
\* this.markets, in the order the service iterates them.  The other four
\* markets hold nothing for this account.
Markets == <<"USDC">>

MarketSet == {Markets[i] : i \in 1..Len(Markets)}

\* oracle.getUnderlyingPrice, as whole dollars per whole token.
UnderlyingPriceUSD(asset) == 1

\* underlyingBalance * underlyingPrice / 10^36 (the oracle scales a price by
\* 10^(36 - decimals)).
BalanceInUSD(raw, asset) ==
    (raw * UnderlyingPriceUSD(asset)) \div Pow10(Decimals(asset))

\* The comptroller's collateral factor of a market, percent.
CollateralFactor(asset) == DEFAULT_LIQUIDATION_THRESHOLD

\* The running total the market loop keeps: the sum of a sequence of numbers.
RECURSIVE SumOver(_, _)
SumOver(seq, i) ==
    IF i > Len(seq) THEN 0 ELSE seq[i] + SumOver(seq, i + 1)

ChainCollateralUSD(c) ==
    LET Weighted(a) == IF c.entered[a]
                       THEN (BalanceInUSD(c.supplied[a], a) * CollateralFactor(a)) \div 100
                       ELSE 0
    IN SumOver([k \in 1..Len(Markets) |-> Weighted(Markets[k])], 1)

ChainDebtUSD(c) ==
    LET Debt(a) == BalanceInUSD(c.borrowed[a], a)
    IN SumOver([k \in 1..Len(Markets) |-> Debt(Markets[k])], 1)

\* comptroller.getAccountLiquidity: the liquidity figure, whole dollars.
getAccountLiquidity(c) ==
    IF ChainCollateralUSD(c) > ChainDebtUSD(c)
    THEN ChainCollateralUSD(c) - ChainDebtUSD(c)
    ELSE 0

\* mToken.mint(amount): pulls the tokens from the wallet; reverts without them.
\* The market's supply cap (the comptroller refuses a mint beyond it).
SupplyCap(a) == parseAmount(MaxTokens, Decimals(a))
MintOk(c, a, raw) == c.wallet[a] >= raw /\ c.supplied[a] + raw <= SupplyCap(a)
Mint(c, a, raw) ==
    [c EXCEPT !.wallet[a] = @ - raw, !.supplied[a] = @ + raw]

\* comptroller.enterMarkets([market]).
EnterMarkets(c, a) == [c EXCEPT !.entered[a] = TRUE]

\* mToken.borrow(amount): needs account liquidity and market cash.
BorrowOk(c, a, raw) ==
    /\ raw > 0
    /\ BalanceInUSD(raw, a) <= getAccountLiquidity(c)
    /\ raw <= c.cash[a]
Borrow(c, a, raw) ==
    [c EXCEPT !.wallet[a] = @ + raw, !.borrowed[a] = @ + raw]

\* mToken.repayBorrow(amount).
RepayOk(c, a, raw) == raw <= c.wallet[a] /\ raw <= c.borrowed[a]
Repay(c, a, raw) ==
    [c EXCEPT !.wallet[a] = @ - raw, !.borrowed[a] = @ - raw]

\* mToken.redeem / redeemUnderlying: the account must stay covered.
RedeemOk(c, a, raw) ==
    /\ raw <= c.supplied[a]
    /\ raw <= c.cash[a]
    /\ LET after == [c EXCEPT !.supplied[a] = @ - raw]
       IN ChainCollateralUSD(after) >= ChainDebtUSD(after)
Redeem(c, a, raw) ==
    [c EXCEPT !.wallet[a] = @ + raw, !.supplied[a] = @ - raw]

\* The supplies list with an entry for every market, a zero balance included.
SuppliesFromKeepingZero(c, i) ==
    [k \in 1..(Len(Markets) + 1 - i) |->
        [asset |-> Markets[i + k - 1],
         balance |-> c.supplied[Markets[i + k - 1]],
         balanceInUSD |-> BalanceInUSD(c.supplied[Markets[i + k - 1]],
                                       Markets[i + k - 1]),
         isCollateral |-> c.entered[Markets[i + k - 1]]]]

(***************************************************************************)
(* services/moonwell-service.ts: the position snapshot.                    *)
(***************************************************************************)
RECURSIVE SuppliesFrom(_, _)
SuppliesFrom(c, i) ==
    IF i > Len(Markets) THEN <<>>
    ELSE LET a == Markets[i]
         IN (IF c.supplied[a] > 0
             THEN <<[asset |-> a,
                     balance |-> c.supplied[a],
                     balanceInUSD |-> BalanceInUSD(c.supplied[a], a),
                     isCollateral |-> c.entered[a]]>>
             ELSE <<>>) \o SuppliesFrom(c, i + 1)

RECURSIVE BorrowsFrom(_, _)
BorrowsFrom(c, i) ==
    IF i > Len(Markets) THEN <<>>
    ELSE LET a == Markets[i]
         IN (IF c.borrowed[a] > 0
             THEN <<[asset |-> a,
                     balance |-> c.borrowed[a],
                     balanceInUSD |-> BalanceInUSD(c.borrowed[a], a)]>>
             ELSE <<>>) \o BorrowsFrom(c, i + 1)

TotalSuppliedUSD(supplies) ==
    LET Counted(s) == IF s.isCollateral THEN s.balanceInUSD ELSE 0
    IN SumOver([k \in 1..Len(supplies) |-> Counted(supplies[k])], 1)

TotalBorrowedUSD(borrows) ==
    LET Usd(b) == b.balanceInUSD
    IN SumOver([k \in 1..Len(borrows) |-> Usd(borrows[k])], 1)

\* The UserPosition getUserPosition builds from the chain state c.
\* getUserPosition's healthFactor: 999 without debt, else
\* calculateHealthFactor at the default 80% threshold.
PositionHealthFactor(totalSuppliedUSD, totalBorrowedUSD) ==
    IF totalBorrowedUSD = 0
    THEN Hundredths(MAX_HEALTH_FACTOR)
    ELSE calculateHealthFactor(totalSuppliedUSD, totalBorrowedUSD,
                               DEFAULT_LIQUIDATION_THRESHOLD)

\* The SDK-based service's healthFactor: 999 without debt, else the weighted
\* collateral divided by the debt, not rounded.  In hundredths, as the
\* fraction num / den.
SdkHealthFactor(collateralUSD, totalBorrowedUSD, liquidationThreshold) ==
    IF totalBorrowedUSD = 0
    THEN [num |-> Hundredths(MAX_HEALTH_FACTOR), den |-> 1]
    ELSE [num |-> collateralUSD * liquidationThreshold, den |-> totalBorrowedUSD]

BuildPosition(c) ==
    LET supplies == SuppliesFrom(c, 1)
        borrows == BorrowsFrom(c, 1)
        totalSuppliedUSD == TotalSuppliedUSD(supplies)
        totalBorrowedUSD == TotalBorrowedUSD(borrows)
    IN [totalSupplied |-> totalSuppliedUSD,
        totalBorrowed |-> totalBorrowedUSD,
        healthFactor |-> PositionHealthFactor(totalSuppliedUSD, totalBorrowedUSD),
        liquidationThreshold |-> DEFAULT_LIQUIDATION_THRESHOLD,
        availableToBorrow |-> getAccountLiquidity(c),
        supplies |-> supplies,
        borrows |-> borrows]

\* ensureInitialized and ensureWallet: the error getUserPosition, supply,
\* borrow, repay and withdraw throw first, or "OK".
EnsureReady ==
    IF ~isInitialized \/ ~userAddress THEN "WALLET_NOT_CONNECTED" ELSE "OK"

\* getCachedPosition with the age test turned around.
getCachedPositionWhenOld ==
    IF positionCache # NoPosition /\ lastUpdate # 0
       /\ now - lastUpdate >= CACHE_FRESH_MS
    THEN positionCache
    ELSE NoPosition

\* getCachedPosition(): the cached position if fresh, else null.
getCachedPosition ==
    IF positionCache # NoPosition /\ lastUpdate # 0 /\ now - lastUpdate < CACHE_FRESH_MS
    THEN positionCache
    ELSE NoPosition

(***************************************************************************)
(* Initial state: the service as constructed, before initialize().         *)
(***************************************************************************)
\* HEALTH_FACTOR_ALERT settings the model starts from (hundredths).
HealthFactorAlertSettings == {100, DEFAULT_HEALTH_FACTOR_ALERT}

\* Cash of the market when other accounts have supplied to it.
PoolCash == parseAmount(MaxTokens, USDC_DECIMALS)

NoOp ==
    [kind |-> "none", pc |-> "idle", stage |-> "none", asset |-> NULL,
     amount |-> 0, isMax |-> FALSE, enable |-> FALSE, position |-> NoPosition,
     balance |-> 0, cash |-> 0, raw |-> 0, simulated |-> 0,
     result |-> "none", txs |-> {}]

NoReader == [active |-> FALSE, position |-> NoPosition, preOp |-> FALSE,
             afterStop |-> FALSE]

NoCall == [api |-> "none", windowFresh |-> FALSE, hit |-> FALSE,
           source |-> FALSE, result |-> "none"]

(***************************************************************************)
(* The balance aggregator: getAllUserBalances and its four sources.  USD   *)
(* values of this part are in thousandths of a dollar, so that $0.005 and  *)
(* the $0.01 default threshold are integers.                               *)
(***************************************************************************)
\* minBalanceThreshold = new BigNumber(0.01), in thousandths of a dollar.
DEFAULT_MIN_BALANCE_THRESHOLD == 10

\* Most entries a source's fetch returns.
MaxSourceEntries == 2

\* Whole dollars in thousandths of a dollar.
USDThousandths(dollars) == dollars * Pow10(3)

\* One EnhancedUserBalance, as far as the aggregator reads it.
EnhancedBalance(symbol, balanceInUSD, source) ==
    [symbol |-> symbol, balanceInUSD |-> balanceInUSD, source |-> source]

\* The assets of SUPPORTED_ASSETS the fallback of getWalletBalances finds a
\* token contract for, in iteration order.
WalletAssets == <<"USDC", "USDbC">>

\* getWalletBalances: the SDK's list when the client answers, else one entry
\* per supported asset whose balanceOf read succeeds with a positive balance
\* (a failed read of one asset skips that asset only).  It never throws.
RECURSIVE WalletFallbackFrom(_, _)
WalletFallbackFrom(fallback, i) ==
    IF i > Len(WalletAssets) THEN <<>>
    ELSE LET asset == WalletAssets[i]
             read == fallback[asset]
         IN (IF read.ok /\ read.raw > 0
             THEN <<EnhancedBalance(asset,
                        (read.raw * UnderlyingPriceUSD(asset) * Pow10(3))
                            \div Pow10(Decimals(asset)),
                        "wallet")>>
             ELSE <<>>) \o WalletFallbackFrom(fallback, i + 1)

getWalletBalances(w) ==
    IF w.sdkOk
    THEN [k \in 1..Len(w.sdkBalances) |->
            EnhancedBalance(w.sdkBalances[k].symbol,
                            w.sdkBalances[k].balanceInUSD, "wallet")]
    ELSE WalletFallbackFrom(w.fallback, 1)

\* convertCorePositionsToEnhanced with the borrows' sign kept.
convertCorePositionsKeepingSign(position) ==
    [k \in 1..Len(position.supplies) |->
        EnhancedBalance(position.supplies[k].asset,
                        USDThousandths(position.supplies[k].balanceInUSD), "core")]
    \o
    [k \in 1..Len(position.borrows) |->
        EnhancedBalance(position.borrows[k].asset,
                        USDThousandths(position.borrows[k].balanceInUSD), "core")]

\* convertCorePositionsToEnhanced: the supplies' entries, then the borrows'
\* entries with balanceInUSD negated.
convertCorePositionsToEnhanced(position) ==
    [k \in 1..Len(position.supplies) |->
        EnhancedBalance(position.supplies[k].asset,
                        USDThousandths(position.supplies[k].balanceInUSD), "core")]
    \o
    [k \in 1..Len(position.borrows) |->
        EnhancedBalance(position.borrows[k].asset,
                        -USDThousandths(position.borrows[k].balanceInUSD), "core")]

\* getMorphoBalances: one entry per non-zero token balance the SDK returns,
\* each with balanceInUSD 0; its own catch turns a failure into no entries.
getMorphoBalances(m) ==
    IF m.ok
    THEN [k \in 1..m.entries |-> EnhancedBalance("USDC", 0, "morpho")]
    ELSE <<>>

\* getVaultBalances: one entry per portfolio position with a known vault,
\* each with balanceInUSD 0; its own catch turns a failure into no entries.
getVaultBalances(v) ==
    IF v.ok
    THEN [k \in 1..v.entries |-> EnhancedBalance("USDC", 0, "vault")]
    ELSE <<>>

\* balances.filter(...) with the threshold test left out.
BalancesUnfiltered(balances, minBalanceThreshold) == balances

\* balances.filter(balance => balance.balanceInUSD.gte(minBalanceThreshold)).
BalancesAtLeast(balances, minBalanceThreshold) ==
    SelectSeq(balances, LAMBDA b : b.balanceInUSD >= minBalanceThreshold)

\* balances.reduce((sum, balance) => sum.plus(balance.balanceInUSD), 0).
SumBalanceInUSD(balances) ==
    SumOver([k \in 1..Len(balances) |-> balances[k].balanceInUSD], 1)

\* The core step with a failed getUserPosition leaving the last position's
\* entries in place.
CorePositionsKeptOnFailure(in, position) ==
    IF in.params.includeCore
    THEN convertCorePositionsToEnhanced(position)
    ELSE <<>>

\* The core step of getAllUserBalances: getUserPosition throws when the
\* chain read fails, and the step's catch leaves the list empty.
CorePositions(in, position) ==
    IF in.params.includeCore /\ in.coreOk
    THEN convertCorePositionsToEnhanced(position)
    ELSE <<>>

\* The sum of the four source totals with the wallet's left out.
GrandTotalWithoutWallet(w, c, m, v) == c + m + v

\* totalWalletValueInUSD.plus(core).plus(morpho).plus(vault).
GrandTotal(w, c, m, v) == w + c + m + v

\* getAllUserBalances(params) once ensureInitialized and ensureWallet have
\* passed; position is what getUserPosition builds from the chain.
getAllUserBalances(in, position) ==
    LET p == in.params
        walletBalances ==
            IF p.includeWallet
            THEN BalancesAtLeast(getWalletBalances(in.wallet), p.minBalanceThreshold)
            ELSE <<>>
        corePositions == CorePositions(in, position)
        morphoPositions ==
            IF p.includeMorpho
            THEN BalancesAtLeast(getMorphoBalances(in.morpho), p.minBalanceThreshold)
            ELSE <<>>
        vaultPositions ==
            IF p.includeVaults
            THEN BalancesAtLeast(getVaultBalances(in.vault), p.minBalanceThreshold)
            ELSE <<>>
    IN [status |-> "returned",
        code |-> "none",
        walletBalances |-> walletBalances,
        corePositions |-> corePositions,
        morphoPositions |-> morphoPositions,
        vaultPositions |-> vaultPositions,
        totalWalletValueInUSD |-> SumBalanceInUSD(walletBalances),
        totalCoreValueInUSD |-> SumBalanceInUSD(corePositions),
        totalMorphoValueInUSD |-> SumBalanceInUSD(morphoPositions),
        totalVaultValueInUSD |-> SumBalanceInUSD(vaultPositions),
        totalBalanceInUSD |-> GrandTotal(SumBalanceInUSD(walletBalances),
                                         SumBalanceInUSD(corePositions),
                                         SumBalanceInUSD(morphoPositions),
                                         SumBalanceInUSD(vaultPositions))]

\* The breakdown before any call, and the shape a thrown error takes.
NoBreakdown ==
    [status |-> "none", code |-> "none",
     walletBalances |-> <<>>, corePositions |-> <<>>,
     morphoPositions |-> <<>>, vaultPositions |-> <<>>,
     totalWalletValueInUSD |-> 0, totalCoreValueInUSD |-> 0,
     totalMorphoValueInUSD |-> 0, totalVaultValueInUSD |-> 0,
     totalBalanceInUSD |-> 0]

\* No read of a wallet asset answers.
NoWalletRead == [a \in {WalletAssets[i] : i \in 1..Len(WalletAssets)} |->
                    [ok |-> FALSE, raw |-> 0]]

NoBalanceRequest ==
    [params |-> [includeWallet |-> TRUE, includeCore |-> TRUE,
                 includeMorpho |-> TRUE, includeVaults |-> TRUE,
                 minBalanceThreshold |-> DEFAULT_MIN_BALANCE_THRESHOLD],
     wallet |-> [sdkOk |-> FALSE, sdkBalances |-> <<>>, fallback |-> NoWalletRead],
     coreOk |-> FALSE,
     morpho |-> [ok |-> FALSE, entries |-> 0],
     vault |-> [ok |-> FALSE, entries |-> 0]]

NoCalc == [collateral |-> 0, debt |-> 0, threshold |-> 0]
NoGuardCheck == [amount |-> 0, larger |-> 0, totalSupplied |-> 0,
                 availableToBorrow |-> 0, healthFactor |-> 0]
NoGuardAnswer == [by |-> "none", code |-> "none", codeLarger |-> "none"]
NoArguments == [of |-> "none"]
NoAnswer == [by |-> "none"]
NoResult == [by |-> "none", num |-> 0, den |-> 1]

InitService ==
    /\ isInitialized = FALSE
    /\ userAddress = FALSE
    /\ healthFactorThreshold \in HealthFactorAlertSettings
    /\ positionCache = NoPosition
    /\ lastUpdate = 0
    /\ marketDataCached = FALSE
    /\ now = TICK_MS
    /\ chain = [supplied |-> [a \in MarketSet |-> 0],
                borrowed |-> [a \in MarketSet |-> 0],
                entered  |-> [a \in MarketSet |-> FALSE],
                wallet   |-> [a \in MarketSet |-> parseAmount(MaxTokens, Decimals(a))],
                cash     |-> [a \in MarketSet |-> PoolCash]]
    /\ builtAt = 0
    /\ builtPreOp = FALSE
    /\ op = NoOp
    /\ reader = NoReader
    /\ warned = FALSE
    /\ lastCall = NoCall

Init ==
    /\ InitService
    /\ calcIn = NoCalc
    /\ calcOut = NoResult
    /\ balIn = NoBalanceRequest
    /\ breakdown = NoBreakdown
    /\ stopped = FALSE
    /\ guardIn = NoGuardCheck
    /\ guardOut = NoGuardAnswer
    /\ fnIn = NoArguments
    /\ fnOut = NoAnswer

(***************************************************************************)
(* initialize(), the clock, and the market's other users.                  *)
(***************************************************************************)
\* initialize(): the signer and userAddress are set when WALLET_PRIVATE_KEY
\* is configured; the monitor is started when userAddress is set.
Initialize ==
    /\ ~isInitialized
    /\ \E privateKey \in BOOLEAN :
        /\ userAddress' = privateKey
        /\ isInitialized' = TRUE
    /\ UNCHANGED <<healthFactorThreshold, positionCache, lastUpdate,
                   marketDataCached, now, chain, builtAt, builtPreOp, op,
                   reader, warned, lastCall, calcVars>>

Tick ==
    /\ now < TICK_MS * (MaxTicks + 1)
    /\ now' = now + TICK_MS
    /\ UNCHANGED <<isInitialized, userAddress, healthFactorThreshold,
                   positionCache, lastUpdate, marketDataCached, chain, builtAt,
                   builtPreOp, op, reader, warned, lastCall,
                   calcVars>>

\* Other accounts drain or refill the market's cash.
MarketCashChange ==
    /\ \E a \in MarketSet :
        chain' = [chain EXCEPT !.cash[a] = IF @ = 0 THEN PoolCash ELSE 0]
    /\ UNCHANGED <<isInitialized, userAddress, healthFactorThreshold,
                   positionCache, lastUpdate, marketDataCached, now, builtAt,
                   builtPreOp, op, reader, warned, lastCall,
                   calcVars>>

(***************************************************************************)
(* Reads of the service.                                                   *)
(***************************************************************************)
\* getUserPosition() awaited by its caller in one step: reads the chain
\* and writes the cache.
OwnRead ==
    /\ positionCache' = BuildPosition(chain)
    /\ lastUpdate' = now
    /\ builtAt' = now
    /\ builtPreOp' = FALSE

\* The callback's test against the default threshold instead of the
\* configured one.
MonitorWarnsBelowDefault(position, threshold) ==
    position.healthFactor < DEFAULT_HEALTH_FACTOR_ALERT

\* position.healthFactor < this.moonwellConfig.healthFactorThreshold.
MonitorWarns(position, threshold) == position.healthFactor < threshold

\* stop(): logs, and leaves the timer of startPositionMonitoring running.
Stop ==
    /\ isInitialized
    /\ ~stopped
    /\ stopped' = TRUE
    /\ UNCHANGED <<svcVars, calcIn, calcOut, balIn, breakdown, guardIn, guardOut,
                   fnIn, fnOut>>

\* The monitor's timer callback: its getUserPosition reads the chain, and
\* writes state.positionCache and state.lastUpdate when its awaits have
\* resolved; then the callback compares the health factor with the alert
\* threshold and logs a warning.  The timer runs once userAddress is set.
MonitorPollRead ==
    /\ isInitialized /\ userAddress
    /\ ~reader.active
    /\ reader' = [active |-> TRUE, position |-> BuildPosition(chain),
                  preOp |-> FALSE, afterStop |-> stopped]
    /\ UNCHANGED <<isInitialized, userAddress, healthFactorThreshold,
                   positionCache, lastUpdate, marketDataCached, now, chain,
                   builtAt, builtPreOp, op, warned, lastCall,
                   calcVars>>

MonitorPollWrite ==
    /\ reader.active
    /\ positionCache' = reader.position
    /\ lastUpdate' = now
    /\ builtAt' = now
    /\ builtPreOp' = reader.preOp
    /\ warned' = MonitorWarns(reader.position, healthFactorThreshold)
    /\ reader' = NoReader
    /\ UNCHANGED <<isInitialized, userAddress, healthFactorThreshold,
                   marketDataCached, now, chain, op, lastCall,
                   calcVars>>

\* getUserPosition() of any other caller (the position context provider's
\* fallback): it always reads the chain.
GetUserPosition ==
    /\ ~reader.active
    /\ IF EnsureReady # "OK"
       THEN /\ lastCall' = [api |-> "getUserPosition", windowFresh |-> FALSE,
                            hit |-> FALSE, source |-> FALSE,
                            result |-> EnsureReady]
            /\ UNCHANGED <<positionCache, lastUpdate, builtAt, builtPreOp>>
       ELSE /\ lastCall' = [api |-> "getUserPosition",
                            windowFresh |-> positionCache # NoPosition
                                            /\ now - builtAt < CACHE_FRESH_MS,
                            hit |-> FALSE, source |-> TRUE,
                            result |-> "position"]
            /\ OwnRead
    /\ UNCHANGED <<isInitialized, userAddress, healthFactorThreshold,
                   marketDataCached, now, chain, op, reader,
                   warned, calcVars>>

\* getCachedPosition(), as the position context provider calls it.
GetCachedPosition ==
    /\ lastCall' = [api |-> "getCachedPosition",
                    windowFresh |-> positionCache # NoPosition
                                    /\ now - builtAt < CACHE_FRESH_MS,
                    hit |-> getCachedPosition # NoPosition,
                    source |-> FALSE,
                    result |-> IF getCachedPosition = NoPosition THEN "null"
                               ELSE "position"]
    /\ UNCHANGED <<isInitialized, userAddress, healthFactorThreshold,
                   positionCache, lastUpdate, marketDataCached, now, chain,
                   builtAt, builtPreOp, op, reader, warned,
                   calcVars>>

\* getMarketData(asset), as the market data provider calls it.
GetMarketData ==
    /\ isInitialized
    /\ marketDataCached' = TRUE
    /\ lastUpdate' = now
    /\ UNCHANGED <<isInitialized, userAddress, healthFactorThreshold,
                   positionCache, now, chain, builtAt, builtPreOp, op,
                   reader, warned, lastCall, calcVars>>

(***************************************************************************)
(* Mutating requests: action handler, then service method.  A request is   *)
(* modelled in three steps, cut where the code awaits the chain: Begin     *)
(* (parsing, the position read, the pre-checks), Tx (the transactions),    *)
(* Finish (the reads after the transactions and the result).               *)
(***************************************************************************)
\* Asset words and amounts of the requests the model feeds in.  Amount 0
\* stands for a message without a positive number.
RequestWords == {"usdc", "USDbC"}
RequestAmounts == 1..MaxRequest
\* "all" with no number, or a number without "all".
MaxOrAmount == {<<TRUE, 0>>} \cup {<<FALSE, n>> : n \in RequestAmounts}
\* A repay message may carry "all" and a number ("repay all 1 usdc").
RepayRequests == MaxOrAmount \cup {<<TRUE, n>> : n \in RequestAmounts}

\* parseXParams: a word names an asset when its upper case is a key.
ParseAsset(word) ==
    IF ToUpperCase(word) \in SUPPORTED_ASSETS THEN ToUpperCase(word) ELSE NULL

Request(kind, asset, amount, isMax, enable) ==
    [NoOp EXCEPT !.kind = kind, !.asset = asset, !.amount = amount,
                 !.isMax = isMax, !.enable = enable]

Stopped(o, stage, code) ==
    [o EXCEPT !.pc = "idle", !.stage = stage, !.result = code]

CanStart == op.pc = "idle"

\* A confirmed transaction of the service changed the chain: what was read
\* before it is from before the operation.
ChainChanged ==
    /\ builtPreOp' = TRUE
    /\ reader' = IF reader.active THEN [reader EXCEPT !.preOp = TRUE]
                 ELSE reader

\* handleError(): the code a reverted transaction is reported with.
RevertCode == "TRANSACTION_FAILED"

(***************************************************************************)
(* supply                                                                  *)
(***************************************************************************)
\* Supply handler: params.amount.gt(balance), balance as getBalance returns it.
SupplyHandlerCheck(amount, balance) ==
    IF amount > balance THEN "INSUFFICIENT_BALANCE" ELSE "OK"

SupplyBegin ==
    /\ CanStart
    /\ \E word \in RequestWords, amount \in RequestAmounts, enable \in BOOLEAN :
        LET asset == ParseAsset(word)
            req == Request("supply", asset, amount, FALSE, enable)
        IN IF asset = NULL \/ amount <= 0
           THEN /\ op' = Stopped(req, "parse", "PARSE_ERROR")
                /\ UNCHANGED <<positionCache, lastUpdate, builtAt, builtPreOp>>
           ELSE IF EnsureReady # "OK"
           THEN /\ op' = Stopped(req, "handler", EnsureReady)
                /\ UNCHANGED <<positionCache, lastUpdate, builtAt, builtPreOp>>
           ELSE LET r == [req EXCEPT !.position = BuildPosition(chain),
                                     !.balance = chain.wallet[asset]]
                IN /\ OwnRead
                   /\ op' = IF SupplyHandlerCheck(amount, r.balance) # "OK"
                            THEN Stopped(r, "handler",
                                         SupplyHandlerCheck(amount, r.balance))
                            ELSE [r EXCEPT !.pc = "tx", !.stage = "service",
                                           !.raw = parseAmount(amount, Decimals(asset))]
    /\ UNCHANGED <<isInitialized, userAddress, healthFactorThreshold,
                   marketDataCached, now, chain, reader, warned, lastCall,
                   calcVars>>

\* approve, mint, and enterMarkets when asked for.
SupplyTx ==
    /\ op.kind = "supply" /\ op.pc = "tx"
    /\ IF MintOk(chain, op.asset, op.raw)
       THEN /\ chain' = IF op.enable
                        THEN EnterMarkets(Mint(chain, op.asset, op.raw), op.asset)
                        ELSE Mint(chain, op.asset, op.raw)
            /\ op' = [op EXCEPT !.pc = "post", !.stage = "chain",
                                !.txs = IF op.enable
                                        THEN {"approve", "mint", "enterMarkets"}
                                        ELSE {"approve", "mint"}]
            /\ ChainChanged
       ELSE /\ chain' = chain
            /\ op' = [Stopped(op, "chain", RevertCode)
                        EXCEPT !.txs = {"approve", "mint"}]
            /\ UNCHANGED <<builtPreOp, reader>>
    /\ UNCHANGED <<isInitialized, userAddress, healthFactorThreshold,
                   positionCache, lastUpdate, marketDataCached, now, builtAt,
                   warned, lastCall, calcVars>>

\* getUserPosition, getMarketData(asset), then the handler's getUserPosition.
SupplyFinish ==
    /\ op.kind = "supply" /\ op.pc = "post"
    /\ chain' = chain
    /\ OwnRead
    /\ marketDataCached' = TRUE
    /\ op' = Stopped(op, "done", "ok")
    /\ UNCHANGED <<isInitialized, userAddress, healthFactorThreshold, now,
                   reader, warned, lastCall, calcVars>>

(***************************************************************************)
(* borrow                                                                  *)
(***************************************************************************)
\* The borrow handler without its collateral check.
BorrowHandlerCheckWithoutCollateral(position, amount) ==
    IF amount > position.availableToBorrow THEN "EXCEEDS_BORROW_CAPACITY"
    ELSE IF position.healthFactor < BORROW_MIN_HEALTH THEN "LOW_HEALTH_FACTOR"
    ELSE "OK"

\* Borrow handler: the three checks on the position it read, in order.
BorrowHandlerCheck(position, amount) ==
    IF position.totalSupplied = 0 THEN "NO_COLLATERAL"
    ELSE IF amount > position.availableToBorrow THEN "EXCEEDS_BORROW_CAPACITY"
    ELSE IF position.healthFactor < BORROW_MIN_HEALTH THEN "LOW_HEALTH_FACTOR"
    ELSE "OK"

\* service.borrow up to its first await of the market.
BorrowServiceCheck(position, amount) ==
    IF validateBorrowCapacityThrows(amount, position.availableToBorrow)
    THEN "EXCEEDS_BORROW_CAPACITY"
    ELSE "OK"

BorrowBegin ==
    /\ CanStart
    /\ \E word \in RequestWords, amount \in RequestAmounts :
        LET asset == ParseAsset(word)
            req == Request("borrow", asset, amount, FALSE, FALSE)
        IN IF asset = NULL \/ amount <= 0
           THEN /\ op' = Stopped(req, "parse", "PARSE_ERROR")
                /\ UNCHANGED <<positionCache, lastUpdate, builtAt, builtPreOp>>
           ELSE IF EnsureReady # "OK"
           THEN /\ op' = Stopped(req, "handler", EnsureReady)
                /\ UNCHANGED <<positionCache, lastUpdate, builtAt, builtPreOp>>
           ELSE LET r == [req EXCEPT !.position = BuildPosition(chain)]
                IN /\ OwnRead
                   /\ op' = IF BorrowHandlerCheck(r.position, amount) # "OK"
                            THEN Stopped(r, "handler",
                                         BorrowHandlerCheck(r.position, amount))
                            ELSE IF BorrowServiceCheck(r.position, amount) # "OK"
                            THEN Stopped(r, "service",
                                         BorrowServiceCheck(r.position, amount))
                            ELSE [r EXCEPT !.pc = "tx", !.stage = "service",
                                           !.raw = parseAmount(amount, Decimals(asset))]
    /\ UNCHANGED <<isInitialized, userAddress, healthFactorThreshold,
                   marketDataCached, now, chain, reader, warned, lastCall,
                   calcVars>>

\* getCash and validateLiquidity, then the borrow transaction.
BorrowTx ==
    /\ op.kind = "borrow" /\ op.pc = "tx"
    /\ LET cash == chain.cash[op.asset]
           o == [op EXCEPT !.cash = cash]
       IN IF validateLiquidityThrows(op.amount, cash)
          THEN /\ op' = Stopped(o, "service", "INSUFFICIENT_LIQUIDITY")
               /\ UNCHANGED <<chain, builtPreOp, reader>>
          ELSE IF BorrowOk(chain, op.asset, op.raw)
          THEN /\ chain' = Borrow(chain, op.asset, op.raw)
               /\ op' = [o EXCEPT !.pc = "post", !.stage = "chain",
                                  !.txs = {"borrow"}]
               /\ ChainChanged
          ELSE /\ op' = [Stopped(o, "chain", RevertCode) EXCEPT !.txs = {"borrow"}]
               /\ UNCHANGED <<chain, builtPreOp, reader>>
    /\ UNCHANGED <<isInitialized, userAddress, healthFactorThreshold,
                   positionCache, lastUpdate, marketDataCached, now, builtAt,
                   warned, lastCall, calcVars>>

\* getUserPosition, getMarketData(asset), validateHealthFactor on the new
\* position, then the handler's getUserPosition.
BorrowFinish ==
    /\ op.kind = "borrow" /\ op.pc = "post"
    /\ chain' = chain
    /\ OwnRead
    /\ marketDataCached' = TRUE
    /\ op' = IF validateHealthFactorThrows(BuildPosition(chain).healthFactor,
                                           healthFactorThreshold)
             THEN Stopped(op, "after", "LIQUIDATION_RISK")
             ELSE Stopped(op, "done", "ok")
    /\ UNCHANGED <<isInitialized, userAddress, healthFactorThreshold, now,
                   reader, warned, lastCall, calcVars>>

(***************************************************************************)
(* repay                                                                   *)
(***************************************************************************)
\* positions.find((p) => p.asset === asset): the entry, or NoPosition.
FindAsset(positions, asset) ==
    IF \E i \in 1..Len(positions) : positions[i].asset = asset
    THEN positions[CHOOSE i \in 1..Len(positions) : positions[i].asset = asset]
    ELSE NoPosition

\* The amount the handler settles on: the whole balance when asked for
\* everything or for at least the balance.
HandlerIsMax(isMax, amount, balance) == isMax \/ amount >= balance
HandlerAmount(isMax, amount, balance) ==
    IF HandlerIsMax(isMax, amount, balance) THEN balance ELSE amount

\* Repay handler: the debt must exist, the wallet must cover the amount.
RepayHandlerCheck(position, asset, amount, isMax, balance) ==
    LET debtPosition == FindAsset(position.borrows, asset)
    IN IF debtPosition = NoPosition THEN "NO_DEBT"
       ELSE IF HandlerAmount(isMax, amount, debtPosition.balance) > balance
       THEN "INSUFFICIENT_BALANCE"
       ELSE "OK"

RepayBegin ==
    /\ CanStart
    /\ \E word \in RequestWords, req0 \in RepayRequests :
        LET isMax == req0[1]
            amount == req0[2]
            asset == ParseAsset(word)
            req == Request("repay", asset, amount, isMax, FALSE)
        IN IF asset = NULL \/ (amount <= 0 /\ ~isMax)
           THEN /\ op' = Stopped(req, "parse", "PARSE_ERROR")
                /\ UNCHANGED <<positionCache, lastUpdate, builtAt, builtPreOp>>
           ELSE IF EnsureReady # "OK"
           THEN /\ op' = Stopped(req, "handler", EnsureReady)
                /\ UNCHANGED <<positionCache, lastUpdate, builtAt, builtPreOp>>
           ELSE LET r == [req EXCEPT !.position = BuildPosition(chain),
                                     !.balance = chain.wallet[asset]]
                    code == RepayHandlerCheck(r.position, asset, amount, isMax,
                                              r.balance)
                IN /\ OwnRead
                   /\ op' = IF code # "OK"
                            THEN Stopped(r, "handler", code)
                            ELSE [r EXCEPT
                                    !.pc = "tx", !.stage = "service",
                                    !.isMax = HandlerIsMax(isMax, amount,
                                        FindAsset(r.position.borrows, asset).balance)]
    /\ UNCHANGED <<isInitialized, userAddress, healthFactorThreshold,
                   marketDataCached, now, chain, reader, warned, lastCall,
                   calcVars>>

\* service.repay's amount with isMax ignored: the parsed amount capped at
\* the stored borrow balance.
RepayAmountOfRequest(isMax, amount, asset, borrowBalance) ==
    IF parseAmount(amount, Decimals(asset)) > borrowBalance
    THEN borrowBalance
    ELSE parseAmount(amount, Decimals(asset))

\* service.repay's amount: the stored borrow balance when isMax, else the
\* parsed amount capped at it.
RepayAmount(isMax, amount, asset, borrowBalance) ==
    IF isMax THEN borrowBalance
    ELSE IF parseAmount(amount, Decimals(asset)) > borrowBalance
         THEN borrowBalance
         ELSE parseAmount(amount, Decimals(asset))

\* borrowBalanceStored, approve, repayBorrow.
RepayTx ==
    /\ op.kind = "repay" /\ op.pc = "tx"
    /\ LET raw == RepayAmount(op.isMax, op.amount, op.asset,
                              chain.borrowed[op.asset])
           o == [op EXCEPT !.raw = raw, !.txs = {"approve", "repayBorrow"}]
       IN IF RepayOk(chain, op.asset, raw)
          THEN /\ chain' = Repay(chain, op.asset, raw)
               /\ op' = [o EXCEPT !.pc = "post", !.stage = "chain"]
               /\ ChainChanged
          ELSE /\ op' = Stopped(o, "chain", RevertCode)
               /\ UNCHANGED <<chain, builtPreOp, reader>>
    /\ UNCHANGED <<isInitialized, userAddress, healthFactorThreshold,
                   positionCache, lastUpdate, marketDataCached, now, builtAt,
                   warned, lastCall, calcVars>>

\* getUserPosition, borrowBalanceStored, then the handler's getUserPosition.
RepayFinish ==
    /\ op.kind = "repay" /\ op.pc = "post"
    /\ OwnRead
    /\ op' = Stopped(op, "done", "ok")
    /\ UNCHANGED <<isInitialized, userAddress, healthFactorThreshold,
                   marketDataCached, now, chain, reader, warned,
                   lastCall, calcVars>>

(***************************************************************************)
(* withdraw                                                                *)
(***************************************************************************)
\* The handler's estimate (totalSupplied - withdrawValueUSD) * threshold /
\* totalBorrowed, with withdrawValueUSD = withdrawAmount * balanceInUSD /
\* balance, is below boundary (hundredths).  Both sides of the comparison
\* are multiplied by 100 * totalBorrowed * balance, which is positive.
EstimatedHealthBelow(position, supplyPosition, withdrawAmount, boundary) ==
    (position.totalSupplied * supplyPosition.balance
       - withdrawAmount * supplyPosition.balanceInUSD)
      * position.liquidationThreshold
    < boundary * position.totalBorrowed * supplyPosition.balance

\* Withdraw handler: the supply must exist; with debt, the estimate must not
\* be below 1.2.
WithdrawHandlerCheck(position, asset, amount, isMax) ==
    LET supplyPosition == FindAsset(position.supplies, asset)
    IN IF supplyPosition = NoPosition THEN "NO_SUPPLY"
       ELSE IF /\ position.totalBorrowed # 0
               /\ EstimatedHealthBelow(position, supplyPosition,
                      HandlerAmount(isMax, amount, supplyPosition.balance),
                      WITHDRAW_RISK_BOUNDARY)
       THEN "LIQUIDATION_RISK"
       ELSE "OK"

\* service.withdraw's withdrawAmount: the underlying balance when isMax,
\* else the parsed amount.
WithdrawAmount(isMax, amount, asset, underlyingBalance) ==
    IF isMax THEN underlyingBalance ELSE parseAmount(amount, Decimals(asset))

\* service.withdraw's simulatedHealthFactor.
SimulatedHealthFactor(position, withdrawAmount) ==
    calculateHealthFactor(position.totalSupplied - withdrawAmount,
                          position.totalBorrowed,
                          position.liquidationThreshold)

WithdrawBegin ==
    /\ CanStart
    /\ \E word \in RequestWords, req0 \in MaxOrAmount :
        LET isMax == req0[1]
            amount == req0[2]
            asset == ParseAsset(word)
            req == Request("withdraw", asset, amount, isMax, FALSE)
        IN IF asset = NULL \/ (amount <= 0 /\ ~isMax)
           THEN /\ op' = Stopped(req, "parse", "PARSE_ERROR")
                /\ UNCHANGED <<positionCache, lastUpdate, builtAt, builtPreOp>>
           ELSE IF EnsureReady # "OK"
           THEN /\ op' = Stopped(req, "handler", EnsureReady)
                /\ UNCHANGED <<positionCache, lastUpdate, builtAt, builtPreOp>>
           ELSE LET r == [req EXCEPT !.position = BuildPosition(chain)]
                    code == WithdrawHandlerCheck(r.position, asset, amount, isMax)
                    max == HandlerIsMax(isMax, amount,
                               FindAsset(r.position.supplies, asset).balance)
                    raw == WithdrawAmount(max, amount, asset, chain.supplied[asset])
                    s == [r EXCEPT !.isMax = max, !.raw = raw,
                                   !.simulated = SimulatedHealthFactor(r.position, raw)]
                IN /\ OwnRead
                   /\ op' = IF code # "OK"
                            THEN Stopped(r, "handler", code)
                            ELSE IF validateHealthFactorThrows(s.simulated,
                                                               healthFactorThreshold)
                            THEN Stopped(s, "service", "LIQUIDATION_RISK")
                            ELSE [s EXCEPT !.pc = "tx", !.stage = "service"]
    /\ UNCHANGED <<isInitialized, userAddress, healthFactorThreshold,
                   marketDataCached, now, chain, reader, warned, lastCall,
                   calcVars>>

\* redeem (isMax) or redeemUnderlying.
WithdrawTx ==
    /\ op.kind = "withdraw" /\ op.pc = "tx"
    /\ LET o == [op EXCEPT !.txs = IF op.isMax THEN {"redeem"}
                                   ELSE {"redeemUnderlying"}]
       IN IF RedeemOk(chain, op.asset, op.raw)
          THEN /\ chain' = Redeem(chain, op.asset, op.raw)
               /\ op' = [o EXCEPT !.pc = "post", !.stage = "chain"]
               /\ ChainChanged
          ELSE /\ op' = Stopped(o, "chain", RevertCode)
               /\ UNCHANGED <<chain, builtPreOp, reader>>
    /\ UNCHANGED <<isInitialized, userAddress, healthFactorThreshold,
                   positionCache, lastUpdate, marketDataCached, now, builtAt,
                   warned, lastCall, calcVars>>

\* getUserPosition, balanceOf, then the handler's getUserPosition.
WithdrawFinish ==
    /\ op.kind = "withdraw" /\ op.pc = "post"
    /\ OwnRead
    /\ op' = Stopped(op, "done", "ok")
    /\ UNCHANGED <<isInitialized, userAddress, healthFactorThreshold,
                   marketDataCached, now, chain, reader, warned,
                   lastCall, calcVars>>

(***************************************************************************)
(* The service and its callers.                                            *)
(***************************************************************************)
Next ==
    \/ Initialize
    \/ MarketCashChange
    \/ MonitorPollRead
    \/ MonitorPollWrite
    \/ SupplyBegin
    \/ SupplyTx
    \/ SupplyFinish
    \/ BorrowBegin
    \/ BorrowTx
    \/ BorrowFinish
    \/ RepayBegin
    \/ RepayTx
    \/ RepayFinish
    \/ WithdrawBegin
    \/ WithdrawTx
    \/ WithdrawFinish

Spec == Init /\ [][Next]_vars

\* The cache and the clock: the reads of the service while time passes.
NextCache ==
    \/ Initialize
    \/ Tick
    \/ Stop
    \/ MonitorPollRead
    \/ MonitorPollWrite
    \/ GetUserPosition
    \/ GetCachedPosition
    \/ GetMarketData

SpecCache == Init /\ [][NextCache]_vars

(***************************************************************************)
(* Properties of the operation guard.                                      *)
(***************************************************************************)
\* The errors a check made before the first transaction stops a request with.
PreCheckStopped(o) ==
    /\ o.kind # "none"
    /\ o.pc = "idle"
    /\ o.stage \in {"parse", "handler", "service"}

\* The pre-checks of the operation guard, each amount in the unit of what it
\* is compared with: the wallet balance and the market's cash are raw token
\* amounts, the borrow capacity and the position totals are US dollars.
WithdrawUSD(o) == BalanceInUSD(o.raw, o.asset)
GuardChecksPassed(o) ==
    CASE o.kind = "supply" ->
            /\ o.asset \in SUPPORTED_ASSETS
            /\ o.amount > 0
            /\ parseAmount(o.amount, Decimals(o.asset)) <= o.balance
      [] o.kind = "borrow" ->
            /\ o.asset \in SUPPORTED_ASSETS
            /\ o.amount > 0
            /\ o.position.totalSupplied > 0
            /\ BalanceInUSD(parseAmount(o.amount, Decimals(o.asset)), o.asset)
                 <= o.position.availableToBorrow
            /\ parseAmount(o.amount, Decimals(o.asset)) <= o.cash
      [] o.kind = "repay" ->
            /\ o.asset \in SUPPORTED_ASSETS
            /\ FindAsset(o.position.borrows, o.asset) # NoPosition
            /\ o.raw <= FindAsset(o.position.borrows, o.asset).balance
            /\ o.raw <= o.balance
      [] o.kind = "withdraw" ->
            /\ o.asset \in SUPPORTED_ASSETS
            /\ FindAsset(o.position.supplies, o.asset) # NoPosition
            /\ o.position.totalBorrowed # 0 =>
                  (o.position.totalSupplied - WithdrawUSD(o))
                      * o.position.liquidationThreshold
                    >= WITHDRAW_RISK_BOUNDARY * o.position.totalBorrowed
      [] OTHER -> FALSE

\* C1: for each of supply, borrow, repay and withdraw, a transaction is sent
\* to the chain only if every pre-check of the operation has passed, and a
\* request that a pre-check stopped has sent nothing.
C1_ChecksGateTransactions ==
    /\ op.txs # {} => GuardChecksPassed(op)
    /\ PreCheckStopped(op) => op.txs = {}

\* C2: with outstanding debt, a withdrawal that got as far as the health
\* check is rejected with LIQUIDATION_RISK exactly when the simulated health
\* factor (totalSupplied - withdrawUSD) * liquidationThreshold /
\* totalBorrowed is below 1.2.
C2_WithdrawRejectedBelowFixedBoundary ==
    (/\ op.kind = "withdraw"
     /\ op.stage \in {"handler", "service", "chain", "done"}
     /\ op.position # NoPosition
     /\ FindAsset(op.position.supplies, op.asset) # NoPosition
     /\ op.position.totalBorrowed # 0)
    => LET asked == IF HandlerIsMax(op.isMax, op.amount,
                          FindAsset(op.position.supplies, op.asset).balance)
                    THEN FindAsset(op.position.supplies, op.asset).balanceInUSD
                    ELSE BalanceInUSD(parseAmount(op.amount, Decimals(op.asset)),
                                      op.asset)
           below == (op.position.totalSupplied - asked)
                        * op.position.liquidationThreshold
                      < WITHDRAW_RISK_BOUNDARY * op.position.totalBorrowed
       IN (op.result = "LIQUIDATION_RISK") <=> below

\* C3: a borrow whose resulting health factor is below the alert threshold
\* is refused: when a borrow request has ended and its transaction was
\* confirmed, the position on chain has a health factor of at least the
\* alert threshold.
C3_BorrowNeverLeavesUnsafePosition ==
    (/\ op.kind = "borrow"
     /\ op.pc = "idle"
     /\ op.stage \in {"after", "done"}
     /\ "borrow" \in op.txs)
    => BuildPosition(chain).healthFactor >= healthFactorThreshold

C7_OperationsSerialized == ~(op.pc # "idle" /\ reader.active)

\* C10: once the mutating requests have completed, a position read from the
\* cache does not return a snapshot read from the chain before their
\* transactions.
C10_NoSnapshotFromBeforeOperation ==
    op.pc = "idle" => ~(getCachedPosition # NoPosition /\ builtPreOp)

(***************************************************************************)
(* Properties of the position cache.                                       *)
(***************************************************************************)
\* C8: getCachedPosition returns a snapshot only if the snapshot was built
\* less than 30 seconds before the call.
C8_CachedSnapshotYoungerThanWindow ==
    (lastCall.api = "getCachedPosition" /\ lastCall.hit) => lastCall.windowFresh

InitCalc ==
    /\ InitService
    /\ calcIn \in [collateral : 0..MaxCollateralUSD,
                   debt : 0..MaxDebtUSD,
                   threshold : {DEFAULT_LIQUIDATION_THRESHOLD}]
    /\ calcOut = NoResult
    /\ balIn = NoBalanceRequest
    /\ breakdown = NoBreakdown
    /\ stopped = FALSE
    /\ guardIn = NoGuardCheck
    /\ guardOut = NoGuardAnswer
    /\ fnIn = NoArguments
    /\ fnOut = NoAnswer

\* utils/validation.ts calculateHealthFactor.
CalculateHealthFactor ==
    /\ calcOut.by = "none"
    /\ calcOut' = [by |-> "calculateHealthFactor",
                   num |-> calculateHealthFactor(calcIn.collateral, calcIn.debt,
                                                 calcIn.threshold),
                   den |-> 1]
    /\ UNCHANGED <<calcIn, balIn, breakdown, stopped, guardIn, guardOut, svcVars,
                   fnIn, fnOut>>

\* The contract-based service's getUserPosition.
PositionHealth ==
    /\ calcOut.by = "none"
    /\ calcOut' = [by |-> "getUserPosition",
                   num |-> PositionHealthFactor(calcIn.collateral, calcIn.debt),
                   den |-> 1]
    /\ UNCHANGED <<calcIn, balIn, breakdown, stopped, guardIn, guardOut, svcVars,
                   fnIn, fnOut>>

\* The SDK-based service's getUserPosition.
SdkPositionHealth ==
    /\ calcOut.by = "none"
    /\ calcOut' = [by |-> "sdk.getUserPosition"]
                    @@ SdkHealthFactor(calcIn.collateral, calcIn.debt,
                                       calcIn.threshold)
    /\ UNCHANGED <<calcIn, balIn, breakdown, stopped, guardIn, guardOut, svcVars,
                   fnIn, fnOut>>

NextCalc ==
    \/ CalculateHealthFactor
    \/ PositionHealth
    \/ SdkPositionHealth

SpecCalc == InitCalc /\ [][NextCalc]_vars

\* C5: a position's healthFactor is 999 if and only if its totalBorrowed is
\* zero.
C5_SentinelIffNoDebt ==
    calcOut.by \in {"getUserPosition", "sdk.getUserPosition"}
    => ((calcOut.num = Hundredths(MAX_HEALTH_FACTOR) * calcOut.den)
          <=> calcIn.debt = 0)

\* C6: in every place a position's health factor is computed, for non-zero
\* debt it equals collateral * liquidationThreshold / debt rounded to two
\* decimal places.
C6_HealthFactorRoundedEverywhere ==
    (calcOut.by # "none" /\ calcIn.debt # 0)
    => calcOut.num
         = RoundHalfUp(calcIn.collateral * calcIn.threshold, calcIn.debt)
             * calcOut.den


(***************************************************************************)
(* getAllUserBalances applied to drawn params, source answers and chain.   *)
(***************************************************************************)
\* Most entries the Morpho and vault fetches return.
MaxProtocolEntries == 1

WalletAssetSet == {WalletAssets[i] : i \in 1..Len(WalletAssets)}

\* USD values of the SDK's wallet entries: $0.005, $0.01 and $1.50.
WalletUSDValues == {5, DEFAULT_MIN_BALANCE_THRESHOLD, 1500}

\* Raw balances balanceOf returns to the fallback: $0.005 and $2 of a
\* 6-decimal asset.
WalletRawValues == {5000, 2000000}

BalanceParams ==
    [includeWallet : BOOLEAN, includeCore : BOOLEAN,
     includeMorpho : BOOLEAN, includeVaults : BOOLEAN,
     minBalanceThreshold : {0, DEFAULT_MIN_BALANCE_THRESHOLD,
                            USDThousandths(MaxRequest) + 1}]

SdkWalletLists ==
    UNION {[1..n -> [symbol : {"USDC"}, balanceInUSD : WalletUSDValues]] :
            n \in 0..MaxSourceEntries}

WalletReads ==
    {[ok |-> FALSE, raw |-> 0]} \cup {[ok |-> TRUE, raw |-> r] : r \in WalletRawValues}

WalletSources ==
    {[sdkOk |-> TRUE, sdkBalances |-> l, fallback |-> NoWalletRead] :
        l \in SdkWalletLists}
    \cup
    {[sdkOk |-> FALSE, sdkBalances |-> <<>>, fallback |-> f] :
        f \in [WalletAssetSet -> WalletReads]}

ProtocolSources ==
    {[ok |-> FALSE, entries |-> 0]}
    \cup {[ok |-> TRUE, entries |-> n] : n \in 0..MaxProtocolEntries}

\* The account's core-market holdings when the aggregation runs: nothing,
\* a supply, a supply entered as collateral, and that with a debt.
CoreChains ==
    {[supplied |-> [a \in MarketSet |-> parseAmount(h[1], Decimals(a))],
      borrowed |-> [a \in MarketSet |-> parseAmount(h[2], Decimals(a))],
      entered  |-> [a \in MarketSet |-> h[3]],
      wallet   |-> [a \in MarketSet |-> parseAmount(MaxTokens, Decimals(a))],
      cash     |-> [a \in MarketSet |-> PoolCash]] :
        h \in {<<0, 0, FALSE>>, <<MaxRequest, 0, FALSE>>,
               <<MaxRequest, 0, TRUE>>, <<MaxRequest, 1, TRUE>>}}

InitBalances ==
    /\ isInitialized = FALSE
    /\ userAddress = FALSE
    /\ healthFactorThreshold = DEFAULT_HEALTH_FACTOR_ALERT
    /\ positionCache = NoPosition
    /\ lastUpdate = 0
    /\ marketDataCached = FALSE
    /\ now = TICK_MS
    /\ chain \in CoreChains
    /\ builtAt = 0
    /\ builtPreOp = FALSE
    /\ op = NoOp
    /\ reader = NoReader
    /\ warned = FALSE
    /\ lastCall = NoCall
    /\ calcIn = NoCalc
    /\ calcOut = NoResult
    /\ balIn \in [params : BalanceParams, wallet : WalletSources,
                  coreOk : BOOLEAN, morpho : ProtocolSources,
                  vault : ProtocolSources]
    /\ breakdown = NoBreakdown
    /\ stopped = FALSE
    /\ guardIn = NoGuardCheck
    /\ guardOut = NoGuardAnswer
    /\ fnIn = NoArguments
    /\ fnOut = NoAnswer

\* The wallet fallback called getMarketData for an asset it found a balance of.
FetchedMarketData(in) ==
    /\ in.params.includeWallet
    /\ ~in.wallet.sdkOk
    /\ \E a \in WalletAssetSet : in.wallet.fallback[a].ok /\ in.wallet.fallback[a].raw > 0

\* getAllUserBalances(params): throws when the service is not ready, else
\* returns the breakdown; its getUserPosition and getMarketData calls write
\* the service's caches.
GetAllUserBalances ==
    /\ breakdown.status = "none"
    /\ IF EnsureReady # "OK"
       THEN /\ breakdown' = [NoBreakdown EXCEPT !.status = "error", !.code = EnsureReady]
            /\ UNCHANGED <<positionCache, lastUpdate, marketDataCached, builtAt,
                           builtPreOp>>
       ELSE /\ breakdown' = getAllUserBalances(balIn, BuildPosition(chain))
            /\ marketDataCached' = (marketDataCached \/ FetchedMarketData(balIn))
            /\ IF balIn.params.includeCore /\ balIn.coreOk
               THEN /\ positionCache' = BuildPosition(chain)
                    /\ lastUpdate' = now
                    /\ builtAt' = now
                    /\ builtPreOp' = FALSE
               ELSE /\ lastUpdate' = IF FetchedMarketData(balIn) THEN now ELSE lastUpdate
                    /\ UNCHANGED <<positionCache, builtAt, builtPreOp>>
    /\ UNCHANGED <<isInitialized, userAddress, healthFactorThreshold, now, chain,
                   op, reader, warned, lastCall, calcIn, calcOut, balIn,
                   stopped, guardIn, guardOut, fnIn, fnOut>>

NextBalances ==
    \/ Initialize
    \/ GetAllUserBalances

SpecBalances == InitBalances /\ [][NextBalances]_vars

Sources == {"wallet", "core", "morpho", "vault"}

ListOf(b, s) ==
    CASE s = "wallet" -> b.walletBalances
      [] s = "core"   -> b.corePositions
      [] s = "morpho" -> b.morphoPositions
      [] s = "vault"  -> b.vaultPositions

TotalOf(b, s) ==
    CASE s = "wallet" -> b.totalWalletValueInUSD
      [] s = "core"   -> b.totalCoreValueInUSD
      [] s = "morpho" -> b.totalMorphoValueInUSD
      [] s = "vault"  -> b.totalVaultValueInUSD

Requested(in, s) ==
    CASE s = "wallet" -> in.params.includeWallet
      [] s = "core"   -> in.params.includeCore
      [] s = "morpho" -> in.params.includeMorpho
      [] s = "vault"  -> in.params.includeVaults

\* The fetch of source s fails: for the wallet, the SDK call and every
\* fallback read.
SourceFailed(in, s) ==
    CASE s = "wallet" -> ~in.wallet.sdkOk
                         /\ \A a \in WalletAssetSet : ~in.wallet.fallback[a].ok
      [] s = "core"   -> ~in.coreOk
      [] s = "morpho" -> ~in.morpho.ok
      [] s = "vault"  -> ~in.vault.ok

\* The same call with source s not requested.
WithoutSource(in, s) ==
    CASE s = "wallet" -> [in EXCEPT !.params.includeWallet = FALSE]
      [] s = "core"   -> [in EXCEPT !.params.includeCore = FALSE]
      [] s = "morpho" -> [in EXCEPT !.params.includeMorpho = FALSE]
      [] s = "vault"  -> [in EXCEPT !.params.includeVaults = FALSE]

\* C11: every breakdown the aggregator returns has totalBalanceInUSD equal to
\* the sum of its wallet, core, Morpho and vault totals.
C11_TotalIsSumOfSourceTotals ==
    breakdown.status = "returned"
    => breakdown.totalBalanceInUSD
         = breakdown.totalWalletValueInUSD + breakdown.totalCoreValueInUSD
           + breakdown.totalMorphoValueInUSD + breakdown.totalVaultValueInUSD

C11_Witness ==
    /\ breakdown.status = "returned"
    /\ breakdown.totalWalletValueInUSD > 0
    /\ breakdown.totalCoreValueInUSD > 0
    /\ ~balIn.params.includeVaults
    /\ balIn.params.includeMorpho /\ ~balIn.morpho.ok

\* C12: in the entries converted from a core position, each entry taken from
\* supplies has balanceInUSD >= 0 and each entry taken from borrows has
\* balanceInUSD <= 0.
C12_CoreSignConvention ==
    (breakdown.status = "returned" /\ balIn.params.includeCore /\ balIn.coreOk)
    => LET position == BuildPosition(chain)
           n == Len(position.supplies)
       IN /\ Len(breakdown.corePositions) = n + Len(position.borrows)
          /\ \A k \in 1..Len(breakdown.corePositions) :
                IF k <= n THEN breakdown.corePositions[k].balanceInUSD >= 0
                          ELSE breakdown.corePositions[k].balanceInUSD <= 0

C12_Witness ==
    /\ breakdown.status = "returned"
    /\ \E k \in 1..Len(breakdown.corePositions) :
          breakdown.corePositions[k].balanceInUSD < 0
    /\ \E k \in 1..Len(breakdown.corePositions) :
          breakdown.corePositions[k].balanceInUSD > 0

\* C13: a wallet balance worth less than minBalanceThreshold is not in
\* walletBalances and is not counted in totalWalletValueInUSD.
C13_SmallWalletBalancesLeftOut ==
    (breakdown.status = "returned" /\ balIn.params.includeWallet)
    => LET fetched == getWalletBalances(balIn.wallet)
           threshold == balIn.params.minBalanceThreshold
       IN /\ \A k \in 1..Len(breakdown.walletBalances) :
                breakdown.walletBalances[k].balanceInUSD >= threshold
          /\ breakdown.totalWalletValueInUSD
               = SumOver([k \in 1..Len(fetched) |->
                            IF fetched[k].balanceInUSD >= threshold
                            THEN fetched[k].balanceInUSD ELSE 0], 1)

C13_Witness ==
    /\ breakdown.status = "returned"
    /\ balIn.params.includeWallet
    /\ balIn.params.minBalanceThreshold = DEFAULT_MIN_BALANCE_THRESHOLD
    /\ \E k \in 1..Len(getWalletBalances(balIn.wallet)) :
          getWalletBalances(balIn.wallet)[k].balanceInUSD = 5
    /\ breakdown.totalWalletValueInUSD > 0

\* C14: a requested source whose fetch fails ends with an empty list and a
\* zero total, the aggregation still returns, and every other source's list
\* and total are those of the same call without the failing source.
C14_FailingSourceIsolated ==
    /\ breakdown.status = "error" => breakdown.code = "WALLET_NOT_CONNECTED"
    /\ breakdown.status = "returned"
       => \A s \in Sources :
            (Requested(balIn, s) /\ SourceFailed(balIn, s))
            => /\ ListOf(breakdown, s) = <<>>
               /\ TotalOf(breakdown, s) = 0
               /\ LET other == getAllUserBalances(WithoutSource(balIn, s),
                                                  BuildPosition(chain))
                  IN \A t \in Sources \ {s} :
                        /\ ListOf(breakdown, t) = ListOf(other, t)
                        /\ TotalOf(breakdown, t) = TotalOf(other, t)

C14_Witness ==
    /\ breakdown.status = "returned"
    /\ balIn.params.includeCore /\ ~balIn.coreOk
    /\ Len(BuildPosition(chain).supplies) > 0
    /\ breakdown.walletBalances # <<>>


\* A withdraw request for the whole of a supply that is the account's
\* collateral: "withdraw all", or an amount of at least the supplied balance.
FullCollateralWithdrawal(o) ==
    /\ o.kind = "withdraw"
    /\ o.position # NoPosition
    /\ o.position.totalSupplied > 0
    /\ LET supplyPosition == FindAsset(o.position.supplies, o.asset)
       IN /\ supplyPosition # NoPosition
          /\ supplyPosition.isCollateral
          /\ \/ o.isMax
             \/ parseAmount(o.amount, Decimals(o.asset)) >= supplyPosition.balance

\* C15: a withdrawal of the entire collateral is rejected with
\* LIQUIDATION_RISK before any transaction when the position has debt, and is
\* not rejected for liquidation risk when the debt is zero.
C15_FullWithdrawalRejectedWithDebt ==
    FullCollateralWithdrawal(op)
    => IF op.position.totalBorrowed > 0
       THEN op.pc = "idle" /\ op.result = "LIQUIDATION_RISK" /\ op.txs = {}
       ELSE op.result # "LIQUIDATION_RISK"

C15_Witness ==
    /\ FullCollateralWithdrawal(op)
    /\ op.position.totalBorrowed > 0
    /\ ~op.isMax
    /\ op.stage = "service"
    /\ op.result = "LIQUIDATION_RISK"


\* C16: a supply whose amount exceeds the wallet balance of the asset, both
\* in raw units, is rejected with INSUFFICIENT_BALANCE and sends no
\* transaction; a supply whose amount does not exceed it is not rejected for
\* insufficient balance.
C16_SupplyBalanceCheckSameUnit ==
    (op.kind = "supply" /\ op.position # NoPosition)
    => IF parseAmount(op.amount, Decimals(op.asset)) > op.balance
       THEN op.pc = "idle" /\ op.result = "INSUFFICIENT_BALANCE" /\ op.txs = {}
       ELSE op.result # "INSUFFICIENT_BALANCE"


\* C17: a repay with isMax repays exactly the asset's debt balance, whatever
\* amount the request carried; the debt is then 0 and, that being the
\* account's only debt, the resulting health factor is 999.
C17_MaxRepayClearsDebt ==
    (op.kind = "repay" /\ op.isMax /\ "repayBorrow" \in op.txs)
    => /\ op.raw = FindAsset(op.position.borrows, op.asset).balance
       /\ op.stage \in {"chain", "done"}
       /\ op.result # RevertCode
       /\ chain.borrowed[op.asset] = 0
       /\ BuildPosition(chain).totalBorrowed = 0
       /\ BuildPosition(chain).healthFactor = Hundredths(MAX_HEALTH_FACTOR)

C17_Witness ==
    /\ op.kind = "repay" /\ op.isMax /\ op.stage = "done"
    /\ op.amount = 1
    /\ op.raw = parseAmount(MaxRequest, Decimals(op.asset))
    /\ chain.supplied[op.asset] > 0


(***************************************************************************)
(* The borrow capacity check applied to a drawn position and two amounts.  *)
(***************************************************************************)
\* Largest amount and capacity of a capacity check.
MaxGuardAmount == 4

\* Positions as far as the borrow checks read them; without collateral
\* nothing can be borrowed.
GuardChecks ==
    {g \in [amount : 1..MaxGuardAmount,
            larger : 1..MaxGuardAmount,
            totalSupplied : {0, MaxGuardAmount},
            availableToBorrow : 0..MaxGuardAmount,
            healthFactor : {WITHDRAW_RISK_BOUNDARY, Hundredths(MAX_HEALTH_FACTOR)}] :
        g.availableToBorrow <= g.totalSupplied}

InitGuard ==
    /\ InitService
    /\ calcIn = NoCalc
    /\ calcOut = NoResult
    /\ balIn = NoBalanceRequest
    /\ breakdown = NoBreakdown
    /\ stopped = FALSE
    /\ guardIn \in GuardChecks
    /\ guardOut = NoGuardAnswer
    /\ fnIn = NoArguments
    /\ fnOut = NoAnswer

\* validateBorrowCapacity(requestedAmount, availableCapacity).
ValidateBorrowCapacity ==
    /\ guardOut.by = "none"
    /\ guardOut' =
         [by |-> "validateBorrowCapacity",
          code |-> IF validateBorrowCapacityThrows(guardIn.amount,
                                                   guardIn.availableToBorrow)
                   THEN "EXCEEDS_BORROW_CAPACITY" ELSE "OK",
          codeLarger |-> IF validateBorrowCapacityThrows(guardIn.larger,
                                                         guardIn.availableToBorrow)
                         THEN "EXCEEDS_BORROW_CAPACITY" ELSE "OK"]
    /\ UNCHANGED <<svcVars, calcIn, calcOut, balIn, breakdown, stopped, guardIn,
                   fnIn, fnOut>>

\* MoonwellService.borrow's capacity check on the position it read.
ServiceCapacityCheck ==
    /\ guardOut.by = "none"
    /\ guardOut' = [by |-> "MoonwellService.borrow",
                    code |-> BorrowServiceCheck(guardIn, guardIn.amount),
                    codeLarger |-> BorrowServiceCheck(guardIn, guardIn.larger)]
    /\ UNCHANGED <<svcVars, calcIn, calcOut, balIn, breakdown, stopped, guardIn,
                   fnIn, fnOut>>

\* The borrow handler's checks on the position it read.
HandlerCapacityCheck ==
    /\ guardOut.by = "none"
    /\ guardOut' = [by |-> "borrowAction.handler",
                    code |-> BorrowHandlerCheck(guardIn, guardIn.amount),
                    codeLarger |-> BorrowHandlerCheck(guardIn, guardIn.larger)]
    /\ UNCHANGED <<svcVars, calcIn, calcOut, balIn, breakdown, stopped, guardIn,
                   fnIn, fnOut>>

NextGuard ==
    \/ ValidateBorrowCapacity
    \/ ServiceCapacityCheck
    \/ HandlerCapacityCheck

SpecGuard == InitGuard /\ [][NextGuard]_vars

\* C18: for a fixed position the capacity check rejects with
\* EXCEEDS_BORROW_CAPACITY exactly the amounts greater than
\* availableToBorrow (in the handler: of a position with collateral), and an
\* amount at least as large as a rejected one is rejected too.
C18_CapacityCheckMonotone ==
    guardOut.by # "none"
    => /\ (guardOut.by = "borrowAction.handler" => guardIn.totalSupplied # 0)
          => /\ guardOut.code = "EXCEEDS_BORROW_CAPACITY"
                  <=> guardIn.amount > guardIn.availableToBorrow
             /\ guardOut.codeLarger = "EXCEEDS_BORROW_CAPACITY"
                  <=> guardIn.larger > guardIn.availableToBorrow
       /\ (guardOut.code = "EXCEEDS_BORROW_CAPACITY"
           /\ guardIn.larger >= guardIn.amount)
          => guardOut.codeLarger = "EXCEEDS_BORROW_CAPACITY"

C18_Witness ==
    /\ guardOut.by = "borrowAction.handler"
    /\ guardOut.code = "EXCEEDS_BORROW_CAPACITY"
    /\ guardIn.larger > guardIn.amount
    /\ guardIn.availableToBorrow > 0

\* C19: a poll of the monitor logs a warning exactly when the health factor
\* of the position it read is below the configured alert threshold, and the
\* poll sends no transaction.
C19_MonitorWarnsOnly ==
    [][(reader.active /\ ~reader'.active)
       => /\ warned' <=> (reader.position.healthFactor < healthFactorThreshold)
          /\ chain' = chain
          /\ op' = op]_vars

C19_Witness ==
    /\ warned
    /\ ~reader.active
    /\ positionCache # NoPosition
    /\ positionCache.healthFactor < healthFactorThreshold
    /\ positionCache.totalBorrowed > 0

\* C20: once stop() has completed the monitor starts no further poll.
C20_NoPollAfterStop ==
    ~(stopped /\ reader.active /\ reader.afterStop)


(***************************************************************************)
(* Position reads, each applied once to a drawn service state: the         *)
(* contract-based service's getUserPosition and getComprehensiveUserData,  *)
(* the SDK-based service's getUserPosition, and the position context       *)
(* provider.  fnIn.ready says the service is initialized with a wallet,    *)
(* fnIn.sourceOk that the calls to the data source succeed,                *)
(* fnIn.cacheFresh that a snapshot taken within the window is cached.      *)
(***************************************************************************)
\* The SDK-based service adds every supply to totalSupplied.
SdkTotalSuppliedUSD(supplies) ==
    LET Usd(s) == s.balanceInUSD
    IN SumOver([k \in 1..Len(supplies) |-> Usd(supplies[k])], 1)

\* The SDK-based service's collateralValue before weighting: the supplies
\* enabled as collateral (each weighted by the default threshold afterwards).
SdkCollateralUSD(supplies) ==
    LET Counted(s) == IF s.isCollateral THEN s.balanceInUSD ELSE 0
    IN SumOver([k \in 1..Len(supplies) |-> Counted(supplies[k])], 1)

\* The UserPosition the SDK-based service builds from the balances c.
\* healthFactor is the unrounded fraction in hundredths; availableToBorrow
\* is in ten-thousandths of a dollar.
SdkBuildPosition(c) ==
    LET supplies == SuppliesFrom(c, 1)
        borrows == BorrowsFrom(c, 1)
        totalBorrowedUSD == TotalBorrowedUSD(borrows)
        collateralUSD == SdkCollateralUSD(supplies)
    IN [totalSupplied |-> SdkTotalSuppliedUSD(supplies),
        totalBorrowed |-> totalBorrowedUSD,
        healthFactor |-> SdkHealthFactor(collateralUSD, totalBorrowedUSD,
                                         DEFAULT_LIQUIDATION_THRESHOLD),
        liquidationThreshold |-> DEFAULT_LIQUIDATION_THRESHOLD,
        availableToBorrow |->
            (collateralUSD * DEFAULT_LIQUIDATION_THRESHOLD - totalBorrowedUSD * 100)
                * DEFAULT_LIQUIDATION_THRESHOLD,
        supplies |-> supplies,
        borrows |-> borrows]

\* getEmptyUserPosition(): what getComprehensiveUserData puts in place of a
\* core position it could not fetch.
getEmptyUserPosition ==
    [totalSupplied |-> 0,
     totalBorrowed |-> 0,
     healthFactor |-> Hundredths(MAX_HEALTH_FACTOR),
     liquidationThreshold |-> DEFAULT_LIQUIDATION_THRESHOLD,
     availableToBorrow |-> 0,
     supplies |-> <<>>,
     borrows |-> <<>>]

ReadRequests ==
    {[of |-> "read", ready |-> r, sourceOk |-> s, cacheFresh |-> f,
      comprehensive |-> q, chain |-> c] :
        r \in BOOLEAN, s \in BOOLEAN, f \in BOOLEAN, q \in BOOLEAN,
        c \in CoreChains}

\* What a read answered: kind is "error" (code says which), "null",
\* "position", "data" (position is the corePosition of the data) or "text";
\* source says whether the data source was called.
ReadAnswer(by, kind, code, position, text, source) ==
    [by |-> by, kind |-> kind, code |-> code, position |-> position,
     text |-> text, source |-> source]

\* The contract-based service's getUserPosition, as a result.
ContractPositionRead(in) ==
    IF ~in.ready
    THEN ReadAnswer("getUserPosition", "error", "WALLET_NOT_CONNECTED",
                    NoPosition, "", FALSE)
    ELSE IF ~in.sourceOk
    THEN ReadAnswer("getUserPosition", "error", "RPC_ERROR", NoPosition, "", TRUE)
    ELSE ReadAnswer("getUserPosition", "position", "none",
                    BuildPosition(in.chain), "", TRUE)

\* The SDK-based service's getUserPosition, as a result.
SdkPositionRead(in) ==
    IF ~in.ready
    THEN ReadAnswer("sdk.getUserPosition", "null", "none", NoPosition, "", FALSE)
    ELSE IF in.cacheFresh
    THEN ReadAnswer("sdk.getUserPosition", "position", "none",
                    SdkBuildPosition(in.chain), "", FALSE)
    ELSE IF ~in.sourceOk
    THEN ReadAnswer("sdk.getUserPosition", "null", "none", NoPosition, "", TRUE)
    ELSE ReadAnswer("sdk.getUserPosition", "position", "none",
                    SdkBuildPosition(in.chain), "", TRUE)

\* getComprehensiveUserData, as a result: a failed getUserPosition is
\* replaced by the empty position.
ComprehensiveRead(in) ==
    LET core == ContractPositionRead(in)
    IN IF ~in.ready
       THEN ReadAnswer("getComprehensiveUserData", "error",
                       "WALLET_NOT_CONNECTED", NoPosition, "", FALSE)
       ELSE ReadAnswer("getComprehensiveUserData", "data", "none",
                       IF core.kind = "error" THEN getEmptyUserPosition
                       ELSE core.position,
                       "", TRUE)

\* positionContextProvider.get, as a result.
ProviderRead(in) ==
    LET full == ComprehensiveRead(in)
        cached == IF in.ready /\ in.cacheFresh THEN BuildPosition(in.chain)
                  ELSE NoPosition
        fresh == ContractPositionRead(in)
        fetch == cached = NoPosition \/ in.comprehensive
        position == IF fetch THEN fresh.position ELSE cached
        source == (in.comprehensive /\ full.source) \/ (fetch /\ fresh.source)
    IN IF in.comprehensive /\ full.kind = "data"
       THEN ReadAnswer("positionContextProvider", "text", "none",
                       full.position, "comprehensive", source)
       ELSE IF fetch /\ fresh.kind = "error"
       THEN ReadAnswer("positionContextProvider", "text", "none",
                       NoPosition, "", source)
       ELSE IF position.totalSupplied = 0 /\ position.totalBorrowed = 0
       THEN ReadAnswer("positionContextProvider", "text", "none",
                       position, "", source)
       ELSE ReadAnswer("positionContextProvider", "text", "none",
                       position, "basic", source)

InitReads ==
    /\ InitService
    /\ calcIn = NoCalc
    /\ calcOut = NoResult
    /\ balIn = NoBalanceRequest
    /\ breakdown = NoBreakdown
    /\ stopped = FALSE
    /\ guardIn = NoGuardCheck
    /\ guardOut = NoGuardAnswer
    /\ fnIn \in ReadRequests
    /\ fnOut = NoAnswer

ContractGetUserPosition ==
    /\ fnOut.by = "none"
    /\ fnOut' = ContractPositionRead(fnIn)
    /\ UNCHANGED <<restVars, fnIn>>

SdkGetUserPosition ==
    /\ fnOut.by = "none"
    /\ fnOut' = SdkPositionRead(fnIn)
    /\ UNCHANGED <<restVars, fnIn>>

GetComprehensiveUserData ==
    /\ fnOut.by = "none"
    /\ fnOut' = ComprehensiveRead(fnIn)
    /\ UNCHANGED <<restVars, fnIn>>

PositionContextProviderGet ==
    /\ fnOut.by = "none"
    /\ fnOut' = ProviderRead(fnIn)
    /\ UNCHANGED <<restVars, fnIn>>

NextReads ==
    \/ ContractGetUserPosition
    \/ SdkGetUserPosition
    \/ GetComprehensiveUserData
    \/ PositionContextProviderGet

SpecReads == InitReads /\ [][NextReads]_vars

\* The service was unavailable for the read, or the data source it called
\* failed.
ReadFailed ==
    /\ fnOut.by # "none"
    /\ (~fnIn.ready \/ (fnOut.source /\ ~fnIn.sourceOk))

\* C21: when the data source fails or the service is unavailable, a position
\* read reports an error kind, never null, an empty position or another
\* default result.
C21_FailedReadReportsError ==
    ReadFailed => fnOut.kind = "error"


(***************************************************************************)
(* What a LIQUIDATION_RISK rejection carries.                              *)
(***************************************************************************)
\* An optional health factor of an error: absent, or the value in hundredths.
NoHealthFactor == [present |-> FALSE]
SomeHealthFactor(healthFactor) == [present |-> TRUE, value |-> healthFactor]

\* createError(code, message, details, suggestions, healthFactor).
createError(code, healthFactor) ==
    [code |-> code, healthFactor |-> healthFactor]

\* The MoonwellError validateHealthFactor throws for healthFactor.
validateHealthFactorError(healthFactor) ==
    createError("LIQUIDATION_RISK", SomeHealthFactor(healthFactor))

\* The ActionResult's data the withdraw handler returns when its own
\* estimate is below 1.2: { error: "LIQUIDATION_RISK" }.
WithdrawRiskData ==
    createError("LIQUIDATION_RISK", NoHealthFactor)

\* The health factor the guard that stopped op found too low.
OffendingHealthFactor ==
    IF op.stage = "after" THEN BuildPosition(chain).healthFactor
    ELSE op.simulated

\* The error data of the rejection that stopped op, as its guard produced it.
RiskRejection ==
    IF op.stage = "handler" THEN WithdrawRiskData
    ELSE validateHealthFactorError(OffendingHealthFactor)

\* C22: every LIQUIDATION_RISK rejection, from whichever guard produces it,
\* carries the offending health factor as data of the error.
C22_RiskRejectionCarriesHealthFactor ==
    (op.pc = "idle" /\ op.result = "LIQUIDATION_RISK")
    => RiskRejection.healthFactor.present


(***************************************************************************)
(* The service's methods called directly, each applied once to a drawn     *)
(* service state and drawn parameters.  fnIn.initialized is                *)
(* state.isInitialized, fnIn.wallet says a signer and a user address are   *)
(* set.  An answer holds the code thrown ("ok" when the call returns),     *)
(* whether the chain was read, and the transactions sent.                  *)
(***************************************************************************)
CallAssets == {"USDC", "usdc", "weth", "dai", "cbETH", "USDbC", "INVALID"}
CallAmounts == (0 - 1)..MaxRequest

ServiceCalls ==
    {[of |-> "call", initialized |-> i, wallet |-> w, asset |-> a,
      amount |-> n, enableAsCollateral |-> e, chain |-> c] :
        i \in BOOLEAN, w \in BOOLEAN, a \in CallAssets, n \in CallAmounts,
        e \in BOOLEAN, c \in CoreChains}

CallAnswer(by, code, reads, txs) ==
    [by |-> by, code |-> code, reads |-> reads, txs |-> txs]

\* supply and borrow with validateAsset and validateAmount moved in front of
\* ensureInitialized and ensureWallet.
ServiceChecksValidatingFirst(in) ==
    IF ~validateAsset(in.asset).ok THEN validateAsset(in.asset).code
    ELSE IF ~validateAmount(in.amount).ok THEN validateAmount(in.amount).code
    ELSE IF ~in.initialized \/ ~in.wallet THEN "WALLET_NOT_CONNECTED"
    ELSE IF validateAsset(in.asset).asset \notin MarketSet THEN "UNSUPPORTED_ASSET"
    ELSE "OK"

\* The checks supply and borrow start with: ensureInitialized, ensureWallet,
\* validateAsset, validateAmount, the market lookup.  The first code thrown,
\* or "OK".
ServiceChecks(in) ==
    IF ~in.initialized \/ ~in.wallet THEN "WALLET_NOT_CONNECTED"
    ELSE IF ~validateAsset(in.asset).ok THEN validateAsset(in.asset).code
    ELSE IF ~validateAmount(in.amount).ok THEN validateAmount(in.amount).code
    ELSE IF validateAsset(in.asset).asset \notin MarketSet THEN "UNSUPPORTED_ASSET"
    ELSE "OK"

\* MoonwellService.supply(params), as an answer.
ServiceSupply(in) ==
    LET asset == validateAsset(in.asset).asset
        raw == parseAmount(in.amount, Decimals(asset))
    IN IF ServiceChecks(in) # "OK"
       THEN CallAnswer("supply", ServiceChecks(in), FALSE, {})
       ELSE IF ~MintOk(in.chain, asset, raw)
       THEN CallAnswer("supply", RevertCode, TRUE, {"approve", "mint"})
       ELSE CallAnswer("supply", "ok", TRUE,
                       IF in.enableAsCollateral
                       THEN {"approve", "mint", "enterMarkets"}
                       ELSE {"approve", "mint"})

\* MoonwellService.borrow(params), as an answer.
ServiceBorrow(in) ==
    LET asset == validateAsset(in.asset).asset
        raw == parseAmount(in.amount, Decimals(asset))
        position == BuildPosition(in.chain)
        after == BuildPosition(Borrow(in.chain, asset, raw))
    IN IF ServiceChecks(in) # "OK"
       THEN CallAnswer("borrow", ServiceChecks(in), FALSE, {})
       ELSE IF BorrowServiceCheck(position, in.amount) # "OK"
       THEN CallAnswer("borrow", BorrowServiceCheck(position, in.amount), TRUE, {})
       ELSE IF validateLiquidityThrows(in.amount, in.chain.cash[asset])
       THEN CallAnswer("borrow", "INSUFFICIENT_LIQUIDITY", TRUE, {})
       ELSE IF ~BorrowOk(in.chain, asset, raw)
       THEN CallAnswer("borrow", RevertCode, TRUE, {"borrow"})
       ELSE IF validateHealthFactorThrows(after.healthFactor, healthFactorThreshold)
       THEN CallAnswer("borrow", "LIQUIDATION_RISK", TRUE, {"borrow"})
       ELSE CallAnswer("borrow", "ok", TRUE, {"borrow"})

\* MoonwellService.getUserPosition(), as an answer.
ServiceGetUserPosition(in) ==
    IF ~in.initialized \/ ~in.wallet
    THEN CallAnswer("getUserPosition", "WALLET_NOT_CONNECTED", FALSE, {})
    ELSE CallAnswer("getUserPosition", "ok", TRUE, {})

InitCalls ==
    /\ InitService
    /\ calcIn = NoCalc
    /\ calcOut = NoResult
    /\ balIn = NoBalanceRequest
    /\ breakdown = NoBreakdown
    /\ stopped = FALSE
    /\ guardIn = NoGuardCheck
    /\ guardOut = NoGuardAnswer
    /\ fnIn \in ServiceCalls
    /\ fnOut = NoAnswer

CallGetUserPosition ==
    /\ fnOut.by = "none"
    /\ fnOut' = ServiceGetUserPosition(fnIn)
    /\ UNCHANGED <<restVars, fnIn>>

CallSupply ==
    /\ fnOut.by = "none"
    /\ fnOut' = ServiceSupply(fnIn)
    /\ UNCHANGED <<restVars, fnIn>>

CallBorrow ==
    /\ fnOut.by = "none"
    /\ fnOut' = ServiceBorrow(fnIn)
    /\ UNCHANGED <<restVars, fnIn>>

\* validateAsset(asset), as an answer.
CallValidateAsset ==
    /\ fnOut.by = "none"
    /\ fnOut' = [by |-> "validateAsset"] @@ validateAsset(fnIn.asset)
    /\ UNCHANGED <<restVars, fnIn>>

NextCalls ==
    \/ CallValidateAsset
    \/ CallGetUserPosition
    \/ CallSupply
    \/ CallBorrow

SpecCalls == InitCalls /\ [][NextCalls]_vars

NamesSupportedAsset(asset) ==
    \E s \in SUPPORTED_ASSETS : ToUpperCase(asset) = ToUpperCase(s)

\* C24: validateAsset succeeds exactly for the names of the supported assets,
\* compared without regard to letter case, and then returns the name in
\* upper case; for any other name it fails with UNSUPPORTED_ASSET.
C24_ValidateAssetCaseInsensitive ==
    fnOut.by = "validateAsset"
    => IF NamesSupportedAsset(fnIn.asset)
       THEN fnOut.ok /\ fnOut.asset = ToUpperCase(fnIn.asset)
       ELSE ~fnOut.ok /\ fnOut.code = "UNSUPPORTED_ASSET"


(***************************************************************************)
(* formatAmount and parseAmount on arbitrary-precision decimals.  A        *)
(* BigNumber is kept as its decimal digits: whole holds the digits before  *)
(* the point without leading zeros (empty for 0), frac the digits after    *)
(* the point without trailing zeros.  A decimal string is kept as all its  *)
(* digits and the number of them that follow the point.                    *)
(***************************************************************************)
MaxDigits == 7
DECIMAL_PLACES == 20
DigitChoices == {0, 1, 9}
SupportedDecimals == {USDC_DECIMALS, 18}

RECURSIVE StripLeadingZeros(_)
StripLeadingZeros(s) ==
    IF s # <<>> /\ Head(s) = 0 THEN StripLeadingZeros(Tail(s)) ELSE s

RECURSIVE StripTrailingZeros(_)
StripTrailingZeros(s) ==
    IF s # <<>> /\ s[Len(s)] = 0
    THEN StripTrailingZeros(SubSeq(s, 1, Len(s) - 1))
    ELSE s

Zeros(n) == [i \in 1..n |-> 0]

\* The BigNumber with the digits whole before the point and frac after it.
BigNumberOf(whole, frac) ==
    [whole |-> StripLeadingZeros(whole), frac |-> StripTrailingZeros(frac)]

\* The digits s plus one in the last place.
RECURSIVE PlusOneInLastPlace(_)
PlusOneInLastPlace(s) ==
    IF s = <<>> THEN <<1>>
    ELSE IF s[Len(s)] < 9
    THEN SubSeq(s, 1, Len(s) - 1) \o <<s[Len(s)] + 1>>
    ELSE PlusOneInLastPlace(SubSeq(s, 1, Len(s) - 1)) \o <<0>>

\* v rounded half up to the given number of decimal places, as a division
\* rounds its quotient.
RoundToPlaces(v, places) ==
    IF Len(v.frac) <= places THEN v
    ELSE LET kept == v.whole \o SubSeq(v.frac, 1, places)
             digits == IF v.frac[places + 1] >= 5
                       THEN PlusOneInLastPlace(kept) ELSE kept
             padded == Zeros(places - Len(digits)) \o digits
         IN BigNumberOf(SubSeq(padded, 1, Len(padded) - places),
                        SubSeq(padded, Len(padded) - places + 1, Len(padded)))

\* v.dividedBy(new BigNumber(10).pow(decimals)), the quotient kept to the
\* given number of decimal places.
DividedByPow10(v, decimals, places) ==
    LET all == Zeros(decimals) \o v.whole
    IN RoundToPlaces(
           BigNumberOf(SubSeq(all, 1, Len(all) - decimals),
                       SubSeq(all, Len(all) - decimals + 1, Len(all)) \o v.frac),
           places)

\* v.multipliedBy(new BigNumber(10).pow(decimals)): exact.
MultipliedByPow10(v, decimals) ==
    LET all == v.frac \o Zeros(decimals - Len(v.frac))
    IN BigNumberOf(v.whole \o SubSeq(all, 1, decimals),
                   SubSeq(all, decimals + 1, Len(all)))

\* v.toFixed(): the decimal string of v in normal notation.
toFixed(v) ==
    [digits |-> (IF v.whole = <<>> THEN <<0>> ELSE v.whole) \o v.frac,
     point |-> Len(v.frac)]

\* new BigNumber(string).
BigNumberFromString(str) ==
    BigNumberOf(SubSeq(str.digits, 1, Len(str.digits) - str.point),
                SubSeq(str.digits, Len(str.digits) - str.point + 1,
                       Len(str.digits)))

\* formatAmount with quotients kept to four decimal places.
formatAmountToFourPlaces(amount, decimals) ==
    toFixed(DividedByPow10(amount, decimals, 4))

\* formatAmount(amount, decimals).
formatAmount(amount, decimals) ==
    toFixed(DividedByPow10(amount, decimals, DECIMAL_PLACES))

\* parseAmount with the product cut to its integer part.
parseDecimalAmountTruncated(amount, decimals) ==
    [MultipliedByPow10(BigNumberFromString(amount), decimals)
        EXCEPT !.frac = <<>>]

\* parseAmount(amount, decimals) for a decimal string amount.
parseDecimalAmount(amount, decimals) ==
    MultipliedByPow10(BigNumberFromString(amount), decimals)

\* The digit strings of the non-negative integers of up to MaxDigits digits.
RECURSIVE DigitStrings(_)
DigitStrings(n) ==
    IF n = 0 THEN {<<>>}
    ELSE DigitStrings(n - 1)
         \cup {Append(s, d) : s \in {t \in DigitStrings(n - 1) : Len(t) = n - 1},
                              d \in DigitChoices}

\* An amount: the integer with the given digits, and the decimal string
\* with the same digits of which the last `point` follow the point.
Amounts ==
    {[of |-> "amount", digits |-> StripLeadingZeros(s), point |-> p,
      decimals |-> d] :
        s \in DigitStrings(MaxDigits), p \in 0..MaxDigits, d \in SupportedDecimals}

\* The decimal string an amount stands for.
AmountString(in) ==
    [digits |-> Zeros(in.point + 1 - Len(in.digits)) \o in.digits,
     point |-> in.point]

InitAmounts ==
    /\ InitService
    /\ calcIn = NoCalc
    /\ calcOut = NoResult
    /\ balIn = NoBalanceRequest
    /\ breakdown = NoBreakdown
    /\ stopped = FALSE
    /\ guardIn = NoGuardCheck
    /\ guardOut = NoGuardAnswer
    /\ fnIn \in Amounts
    /\ fnOut = NoAnswer

\* formatAmount(x, d) of the integer x.
FormatAmount ==
    /\ fnOut.by = "none"
    /\ fnOut' = [by |-> "formatAmount",
                 string |-> formatAmount(BigNumberOf(fnIn.digits, <<>>),
                                         fnIn.decimals)]
    /\ UNCHANGED <<restVars, fnIn>>

\* parseAmount(formatAmount(x, d), d) of the integer x.
ParseFormatted ==
    /\ fnOut.by = "formatAmount"
    /\ fnOut' = [by |-> "parseAmount(formatAmount)",
                 string |-> fnOut.string,
                 value |-> parseDecimalAmount(fnOut.string, fnIn.decimals)]
    /\ UNCHANGED <<restVars, fnIn>>

\* parseAmount(amount, d) of the decimal string: the amountInWei whose
\* toString() supply, borrow, repay and withdraw pass to the chain call.
ParseAmount ==
    /\ fnOut.by = "none"
    /\ fnOut' = [by |-> "parseAmount",
                 value |-> parseDecimalAmount(AmountString(fnIn), fnIn.decimals)]
    /\ UNCHANGED <<restVars, fnIn>>

NextAmounts ==
    \/ FormatAmount
    \/ ParseFormatted
    \/ ParseAmount

SpecAmounts == InitAmounts /\ [][NextAmounts]_vars

\* C25: converting a raw integer amount to canonical form and back is the
\* identity, parseAmount(formatAmount(x, d), d) = x, for every non-negative
\* integer x and the decimal counts 6 and 18.
C25_FormatParseRoundTrip ==
    fnOut.by = "parseAmount(formatAmount)"
    => fnOut.value = [whole |-> fnIn.digits, frac |-> <<>>]

C25_Witness ==
    /\ fnOut.by = "parseAmount(formatAmount)"
    /\ fnIn.decimals = USDC_DECIMALS
    /\ Len(fnIn.digits) = MaxDigits
    /\ fnIn.digits[MaxDigits] = 9
    /\ fnOut.string.point = USDC_DECIMALS
    /\ fnOut.value.whole = fnIn.digits

\* C30: parseAmount always yields an integer, so the raw amount passed to a
\* chain call never has a fractional part.
C30_RawAmountIsInteger ==
    fnOut.by = "parseAmount" => fnOut.value.frac = <<>>


\* The magnitude of a USD value.
Magnitude(x) == IF x < 0 THEN 0 - x ELSE x

\* C26: in every list of a returned BalanceBreakdown (wallet, core, Morpho,
\* vault) each entry's balanceInUSD is at least minBalanceThreshold in
\* absolute value.
C26_EveryListFilteredByMagnitude ==
    breakdown.status = "returned"
    => \A s \in Sources :
          \A k \in 1..Len(ListOf(breakdown, s)) :
             Magnitude(ListOf(breakdown, s)[k].balanceInUSD)
                >= balIn.params.minBalanceThreshold


\* The sum of balanceInUSD over the supplies enabled as collateral.
RECURSIVE CollateralEnabledUSD(_)
CollateralEnabledUSD(supplies) ==
    IF supplies = <<>> THEN 0
    ELSE (IF Head(supplies).isCollateral THEN Head(supplies).balanceInUSD ELSE 0)
         + CollateralEnabledUSD(Tail(supplies))

\* C27: totalSupplied of a built UserPosition is the sum of balanceInUSD over
\* the collateral-enabled supplies only; a supply not enabled as collateral
\* is listed but adds nothing to totalSupplied.
C27_TotalSuppliedCountsCollateralOnly ==
    (fnOut.by \in {"getUserPosition", "sdk.getUserPosition"}
       /\ fnOut.kind = "position")
    => fnOut.position.totalSupplied = CollateralEnabledUSD(fnOut.position.supplies)

\* C29: every entry in supplies and in borrows of a built UserPosition has a
\* strictly positive balance, and an asset with nothing supplied and nothing
\* borrowed is in neither list.
C29_ListedBalancesPositive ==
    (fnOut.by = "getUserPosition" /\ fnOut.kind = "position")
    => LET position == fnOut.position
       IN /\ \A k \in 1..Len(position.supplies) :
                /\ position.supplies[k].balance > 0
                /\ position.supplies[k].balanceInUSD >= 0
          /\ \A k \in 1..Len(position.borrows) :
                /\ position.borrows[k].balance > 0
                /\ position.borrows[k].balanceInUSD >= 0
          /\ \A a \in MarketSet :
                /\ fnIn.chain.supplied[a] = 0
                   => \A k \in 1..Len(position.supplies) :
                         position.supplies[k].asset # a
                /\ fnIn.chain.borrowed[a] = 0
                   => \A k \in 1..Len(position.borrows) :
                         position.borrows[k].asset # a

C29_Witness ==
    /\ fnOut.by = "getUserPosition"
    /\ fnOut.kind = "position"
    /\ fnIn.chain.supplied["USDC"] > 0
    /\ fnIn.chain.borrowed["USDC"] = 0
    /\ Len(fnOut.position.supplies) = 1
    /\ fnOut.position.borrows = <<>>


(***************************************************************************)
(* Risk classification of a health factor, each classifier applied once to *)
(* a drawn health factor (hundredths).                                     *)
(***************************************************************************)
MaxRiskHealthFactor == 300

\* calculatePortfolioSummary: the riskDistribution bucket that receives the
\* net worth.
riskDistribution(overallHealthFactor) ==
    IF overallHealthFactor >= 200 THEN "safe"
    ELSE IF overallHealthFactor >= 150 THEN "moderate"
    ELSE IF overallHealthFactor >= 120 THEN "high"
    ELSE "critical"

\* getRiskLevel(healthFactor) of the position context providers.
getRiskLevel(healthFactor) ==
    IF healthFactor >= 200 THEN "safe"
    ELSE IF healthFactor >= 150 THEN "moderate risk"
    ELSE IF healthFactor >= 120 THEN "high risk"
    ELSE "critical - liquidation risk"

\* positionHealthEvaluator's riskProfile.liquidationRiskLevel.
liquidationRiskLevel(healthFactor) ==
    IF healthFactor < 120 THEN "high"
    ELSE IF healthFactor < 150 THEN "medium"
    ELSE "low"

\* positionHealthEvaluator's riskProfile.
riskProfile(healthFactor) ==
    [isConservative |-> healthFactor > 250,
     isModerate |-> healthFactor >= 150 /\ healthFactor <= 250,
     isAggressive |-> healthFactor < 150,
     liquidationRiskLevel |-> liquidationRiskLevel(healthFactor)]

InitRisk ==
    /\ InitService
    /\ calcIn = NoCalc
    /\ calcOut = NoResult
    /\ balIn = NoBalanceRequest
    /\ breakdown = NoBreakdown
    /\ stopped = FALSE
    /\ guardIn = NoGuardCheck
    /\ guardOut = NoGuardAnswer
    /\ fnIn \in [of : {"healthFactor"}, healthFactor : 0..MaxRiskHealthFactor]
    /\ fnOut = NoAnswer

\* calculatePortfolioSummary's risk distribution step.
CalculatePortfolioSummary ==
    /\ fnOut.by = "none"
    /\ fnOut' = [by |-> "calculatePortfolioSummary",
                 level |-> riskDistribution(fnIn.healthFactor)]
    /\ UNCHANGED <<restVars, fnIn>>

\* getRiskLevel(healthFactor).
GetRiskLevel ==
    /\ fnOut.by = "none"
    /\ fnOut' = [by |-> "getRiskLevel",
                 level |-> getRiskLevel(fnIn.healthFactor)]
    /\ UNCHANGED <<restVars, fnIn>>

\* positionHealthEvaluator.handler's riskProfile.
PositionHealthEvaluator ==
    /\ fnOut.by = "none"
    /\ fnOut' = [by |-> "positionHealthEvaluator",
                 level |-> riskProfile(fnIn.healthFactor).liquidationRiskLevel,
                 riskProfile |-> riskProfile(fnIn.healthFactor)]
    /\ UNCHANGED <<restVars, fnIn>>

NextRisk ==
    \/ CalculatePortfolioSummary
    \/ GetRiskLevel
    \/ PositionHealthEvaluator

SpecRisk == InitRisk /\ [][NextRisk]_vars

\* The class the fixed boundaries give a health factor.
RiskClass(healthFactor) ==
    IF healthFactor >= 200 THEN "safe"
    ELSE IF healthFactor >= 150 THEN "moderate"
    ELSE IF healthFactor >= 120 THEN "high"
    ELSE "critical"

\* The class a classifier's label names.
ClassNamed(level) ==
    CASE level \in {"safe", "low"} -> "safe"
      [] level \in {"moderate", "moderate risk", "medium"} -> "moderate"
      [] level \in {"high", "high risk"} -> "high"
      [] level \in {"critical", "critical - liquidation risk"} -> "critical"

\* C28: every risk classification of a health factor uses the same fixed
\* boundaries: >= 2.0 safe, [1.5, 2.0) moderate, [1.2, 1.5) high, < 1.2
\* critical.
C28_RiskBoundariesUniform ==
    fnOut.by # "none" => ClassNamed(fnOut.level) = RiskClass(fnIn.healthFactor)

=============================================================================
